---- MODULE Spec2Model ----
(***************************************************************************)
(* A model of graphgolf: the graph engine (lib/graph_elements.py), the     *)
(* enhancers (lib/enhancers.py) and the tournament loop (lib/cli.py).      *)
(*                                                                         *)
(* A graph object is a record.  Vertices are named by their id; a          *)
(* reference to a Vertex OBJECT (as held by a hops cache) is the pair      *)
(* <<gid, id>> of the owning graph object's identity and the vertex id,    *)
(* because Vertex hashes by object identity (graph_elements.py:58).        *)
(* aspl is lengths_sum/lengths_count; lengths_count is len(combinations(   *)
(* vertices, 2)), fixed by the order, so the field aspl holds the          *)
(* numerator lengths_sum.                                                  *)
(***************************************************************************)
EXTENDS Integers, Sequences, FiniteSets, TLC

VARIABLES
    graph,        \* the graph object operated on (enhance: current_graph)
    best_graph,   \* enhance: the graph passed as best_graph; Cli.best_graph
    raised,       \* the exception the last operation raised, or "None"
    last,         \* the last operation that ran
    returned,     \* the value the last operation returned
    ops,          \* number of operations applied so far
    enhancing,    \* enhance: the class of the enhancer self
    pc,           \* the position reached in enhance() or in Cli._run()
    modification, \* enhance: iterations of the for loop done
    report_queue, \* the graphs put and not yet got, oldest first
    enhancers,    \* Cli.enhancers: the classes registered
    processes,    \* Cli._run: the list processes
    workers,      \* the worker processes alive
    in_flight,    \* puts sent to the Manager and not yet in report_queue
    round,        \* Cli._run: iterations of the while loop begun
    once,         \* args.once
    data,         \* HopsCache._data of the cache operated on
    copy,         \* HopsCache._data of the cache filled by set_from_ids
    called,       \* the arguments of the last operation on the cache
    vertices_left, \* add_as_many_random_edges_as_possible: overall_vertices
    rounds_begun, \* add_as_many_random_edges_as_possible: rounds begun
    edges_file    \* Cli: the lines of the edges file written last

graphVars == <<graph, raised, last, returned, ops>>
enhanceVars == <<enhancing, pc, modification, report_queue>>
runVars == <<enhancers, processes, workers, in_flight, round, once>>
cacheVars == <<data, copy, called>>
roundVars == <<vertices_left, rounds_begun>>
moreVars == <<data, copy, called, vertices_left, rounds_begun, edges_file>>
vars == <<graph, best_graph, raised, last, returned, ops,
          enhancing, pc, modification, report_queue,
          enhancers, processes, workers, in_flight, round, once,
          data, copy, called, vertices_left, rounds_begun, edges_file>>

(* Python's None in an integer-valued field (breadcrumb, diameter, aspl). *)
None == -1

(* ------------------------------ bounds -------------------------------- *)
MaxOrder == 4
MaxDegree == 2
MaxOps == 5
MaxRandomOps == 2
MaxCompletionOrder == 5
MaxLoadedEdges == 1
MaxCompletionOps == 2

(* ------------------------------ helpers ------------------------------- *)
Vertices(g) == 0 .. (g.order - 1)

SeqToSet(s) == {s[i] : i \in 1 .. Len(s)}

Contains(s, x) == \E i \in 1 .. Len(s) : s[i] = x

Reverse(s) == [i \in 1 .. Len(s) |-> s[Len(s) + 1 - i]]

(* list.remove(x): drops the first occurrence of x. *)
RECURSIVE ListRemove(_, _)
ListRemove(s, x) ==
    IF s = <<>> THEN <<>>
    ELSE IF Head(s) = x THEN Tail(s)
    ELSE <<Head(s)>> \o ListRemove(Tail(s), x)

(* list.pop(i) for a 1-based index i. *)
ListPop(s, i) == SubSeq(s, 1, i - 1) \o SubSeq(s, i + 1, Len(s))

(* A per-vertex array as an explicit function value (TLC would otherwise  *)
(* keep [v \in S |-> e] unevaluated in some contexts).                     *)
Array(f) == f @@ f

(* ------------------------------ Vertex -------------------------------- *)
(* A vertex's _hops_cache is a dict: a sequence of entries in insertion   *)
(* order, each [target |-> vertex reference, hops |-> references].        *)
Ref(g, v) == <<g.gid, v>>

CacheIndex(cache, key) ==
    IF \E i \in 1 .. Len(cache) : cache[i].target = key
    THEN CHOOSE i \in 1 .. Len(cache) : cache[i].target = key
    ELSE 0

(* dict[key] = value: in place for a key present, appended otherwise. *)
DictSet(cache, key, hops) ==
    LET i == CacheIndex(cache, key)
    IN  IF i = 0 THEN Append(cache, [target |-> key, hops |-> hops])
        ELSE [cache EXCEPT ![i] = [target |-> key, hops |-> hops]]

DictDel(cache, key) == ListPop(cache, CacheIndex(cache, key))

(* hops_cache_has(self, other): the entry lives at the lower id. *)
hops_cache_has(g, self, other) ==
    IF self < other
    THEN CacheIndex(g.hops_cache[self], Ref(g, other)) # 0
    ELSE CacheIndex(g.hops_cache[other], Ref(g, self)) # 0

(* hops_cache_set(self, other, hops): returns the caches of all vertices. *)
hops_cache_set(g, self, other, hops) ==
    IF self < other
    THEN [g.hops_cache EXCEPT ![self] = DictSet(@, Ref(g, other), hops)]
    ELSE [g.hops_cache EXCEPT ![other] = DictSet(@, Ref(g, self), Reverse(hops))]

(* ----------------------------- GolfGraph ------------------------------ *)
GolfGraph(gid, order, degree) ==
    [gid |-> gid, order |-> order, degree |-> degree,
     diameter |-> None, aspl |-> None,
     edges_to |-> Array([v \in 0 .. (order - 1) |-> <<>>]),
     vdirty |-> Array([v \in 0 .. (order - 1) |-> FALSE]),
     breadcrumb |-> Array([v \in 0 .. (order - 1) |-> None]),
     hops_cache |-> Array([v \in 0 .. (order - 1) |-> <<>>]),
     dirty |-> FALSE]

(* What an operation hands back: the graph after it, the exception it     *)
(* raised ("None" when it returned) and its return value.                  *)
Outcome(g, exc, ret) == [g |-> g, raised |-> exc, ret |-> ret]

(* An add_edge_unsafe() that links vertex_a to vertex_b but not back. *)
add_edge_one_way(g, vertex_a, vertex_b) ==
    IF vertex_a = vertex_b
    THEN Outcome(g, "AssertionError", <<>>)
    ELSE Outcome([g EXCEPT !.edges_to[vertex_a] = Append(@, vertex_b),
                           !.dirty = TRUE,
                           !.vdirty[vertex_a] = TRUE,
                           !.vdirty[vertex_b] = TRUE],
                 IF Len(g.edges_to[vertex_a]) < g.degree
                 THEN "None" ELSE "AssertionError", <<>>)

(* An add_edge_unsafe() without the assertions on the degree. *)
add_edge_unchecked(g, vertex_a, vertex_b) ==
    IF vertex_a = vertex_b
    THEN Outcome(g, "AssertionError", <<>>)
    ELSE Outcome([g EXCEPT !.edges_to[vertex_a] = Append(@, vertex_b),
                           !.edges_to[vertex_b] = Append(@, vertex_a),
                           !.dirty = TRUE,
                           !.vdirty[vertex_a] = TRUE,
                           !.vdirty[vertex_b] = TRUE],
                 "None", <<>>)

(* add_edge_unsafe() without line 301: the graph's flag is left alone. *)
add_edge_keeping_clean(g, vertex_a, vertex_b) ==
    IF vertex_a = vertex_b
    THEN Outcome(g, "AssertionError", <<>>)
    ELSE LET g2 == [g EXCEPT !.edges_to[vertex_a] = Append(@, vertex_b),
                             !.edges_to[vertex_b] = Append(@, vertex_a),
                             !.vdirty[vertex_a] = TRUE,
                             !.vdirty[vertex_b] = TRUE]
         IN  IF Len(g2.edges_to[vertex_a]) <= g.degree
                /\ Len(g2.edges_to[vertex_b]) <= g.degree
             THEN Outcome(g2, "None", <<>>)
             ELSE Outcome(g2, "AssertionError", <<>>)

add_edge_unsafe(g, vertex_a, vertex_b) ==
    IF vertex_a = vertex_b
    THEN Outcome(g, "AssertionError", <<>>)
    ELSE LET g2 == [g EXCEPT !.edges_to[vertex_a] = Append(@, vertex_b),
                             !.edges_to[vertex_b] = Append(@, vertex_a),
                             !.dirty = TRUE,
                             !.vdirty[vertex_a] = TRUE,
                             !.vdirty[vertex_b] = TRUE]
         IN  IF Len(g2.edges_to[vertex_a]) <= g.degree
                /\ Len(g2.edges_to[vertex_b]) <= g.degree
             THEN Outcome(g2, "None", <<>>)
             ELSE Outcome(g2, "AssertionError", <<>>)

remove_edge_unsafe(g, vertex_a, vertex_b) ==
    IF vertex_a = vertex_b
    THEN Outcome(g, "AssertionError", <<>>)
    ELSE IF ~Contains(g.edges_to[vertex_a], vertex_b)
    THEN Outcome(g, "ValueError", <<>>)
    ELSE LET g1 == [g EXCEPT !.edges_to[vertex_a] = ListRemove(@, vertex_b)]
         IN  IF ~Contains(g1.edges_to[vertex_b], vertex_a)
             THEN Outcome(g1, "ValueError", <<>>)
             ELSE Outcome([g1 EXCEPT !.edges_to[vertex_b] = ListRemove(@, vertex_a),
                                     !.vdirty[vertex_a] = TRUE,
                                     !.vdirty[vertex_b] = TRUE,
                                     !.dirty = TRUE],
                          "None", <<>>)

(* The references to dirty Vertex objects of graph g. *)
DirtyRefs(g) == {Ref(g, v) : v \in {w \in Vertices(g) : g.vdirty[w]}}

(* clean(), lines 669-681: the scan of one clean vertex's cache items.    *)
(* A dirty target ends the scan of the items (the break of line 675); a   *)
(* dirty hop ends only the scan of that item's hops (line 681).           *)
RECURSIVE keys_to_invalidate(_, _, _)
keys_to_invalidate(items, i, dirtyRefs) ==
    IF i > Len(items) THEN {}
    ELSE IF items[i].target \in dirtyRefs THEN {items[i].target}
    ELSE (IF \E j \in 1 .. Len(items[i].hops) : items[i].hops[j] \in dirtyRefs
          THEN {items[i].target} ELSE {})
         \cup keys_to_invalidate(items, i + 1, dirtyRefs)

(* A clean() that resets the flags but invalidates no cache entry. *)
clean_keeping_caches(g, dirtyRefs) ==
    [g EXCEPT !.aspl = None, !.diameter = None,
              !.vdirty = Array([v \in Vertices(g) |-> FALSE]),
              !.dirty = FALSE]

(* A clean() without lines 645-646: diameter and aspl are left alone. *)
clean_keeping_analysis(g, dirtyRefs) ==
    [g EXCEPT
        !.hops_cache = Array([v \in Vertices(g) |->
            IF g.vdirty[v] THEN <<>>
            ELSE LET drop == keys_to_invalidate(g.hops_cache[v], 1, dirtyRefs)
                 IN  SelectSeq(g.hops_cache[v], LAMBDA e : e.target \notin drop)]),
        !.vdirty = Array([v \in Vertices(g) |-> FALSE]),
        !.dirty = FALSE]

(* clean(): dirtyRefs are the dirty Vertex objects reachable from the     *)
(* caches (this graph's, and those of a graph it was duplicated from).    *)
clean(g, dirtyRefs) ==
    [g EXCEPT
        !.aspl = None,
        !.diameter = None,
        !.hops_cache = Array([v \in Vertices(g) |->
            IF g.vdirty[v] THEN <<>>
            ELSE LET drop == keys_to_invalidate(g.hops_cache[v], 1, dirtyRefs)
                 IN  SelectSeq(g.hops_cache[v], LAMBDA e : e.target \notin drop)]),
        !.vdirty = Array([v \in Vertices(g) |-> FALSE]),
        !.dirty = FALSE]

(* hops(), lines 471-476: enqueue the neighbours that have no breadcrumb. *)
RECURSIVE EnqueueNeighbours(_, _, _, _, _)
EnqueueNeighbours(edges_to, i, currently_visiting, breadcrumb, enqueued) ==
    IF i > Len(edges_to)
    THEN [breadcrumb |-> breadcrumb, enqueued |-> enqueued]
    ELSE IF breadcrumb[edges_to[i]] = None
    THEN EnqueueNeighbours(edges_to, i + 1, currently_visiting,
                           [breadcrumb EXCEPT ![edges_to[i]] = currently_visiting],
                           Append(enqueued, edges_to[i]))
    ELSE EnqueueNeighbours(edges_to, i + 1, currently_visiting, breadcrumb, enqueued)

(* hops(), lines 457-478: the breadth-first walk. found = FALSE is the    *)
(* else branch of the while loop (GraphPartitionedError).                 *)
RECURSIVE BreadthFirst(_, _, _, _)
BreadthFirst(g, vertex_b, breadcrumb, currently_enqueued) ==
    IF currently_enqueued = <<>>
    THEN [found |-> FALSE, breadcrumb |-> breadcrumb]
    ELSE LET currently_visiting == Head(currently_enqueued)
         IN  IF currently_visiting = vertex_b
             THEN [found |-> TRUE, breadcrumb |-> breadcrumb]
             ELSE LET r == EnqueueNeighbours(g.edges_to[currently_visiting], 1,
                                             currently_visiting, breadcrumb,
                                             Tail(currently_enqueued))
                  IN  BreadthFirst(g, vertex_b, r.breadcrumb, r.enqueued)

(* hops(), lines 484-500: follow the breadcrumbs back, filling the caches *)
(* of the vertices passed. hops holds vertex ids.                         *)
RECURSIVE FollowBreadcrumbs(_, _, _, _, _)
FollowBreadcrumbs(g, vertex_a, vertex_b, currently_visiting, hops) ==
    IF currently_visiting = vertex_a
    THEN [g |-> g, hops |-> hops]
    ELSE LET g2 == IF ~hops_cache_has(g, currently_visiting, vertex_b)
                   THEN [g EXCEPT !.hops_cache =
                            hops_cache_set(g, currently_visiting, vertex_b,
                                           [i \in 1 .. Len(hops) |-> Ref(g, hops[i])])]
                   ELSE g
         IN  FollowBreadcrumbs(g2, vertex_a, vertex_b,
                               g.breadcrumb[currently_visiting],
                               <<currently_visiting>> \o hops)

(* hops(vertex_a, vertex_b). The return value is the sequence of Vertex   *)
(* references. With vertex_a > vertex_b, hops_cache_get (line 109) calls  *)
(* reversed() on the entry: a TypeError when there is none.               *)
hops(g0, vertex_a, vertex_b, dirtyRefs) ==
    LET g == IF g0.dirty THEN clean(g0, dirtyRefs) ELSE g0
    IN  IF vertex_a = vertex_b \/ g.vdirty[vertex_a] \/ g.vdirty[vertex_b]
        THEN Outcome(g, "AssertionError", <<>>)
        ELSE LET lo == IF vertex_a < vertex_b THEN vertex_a ELSE vertex_b
                 hi == IF vertex_a < vertex_b THEN vertex_b ELSE vertex_a
                 i == CacheIndex(g.hops_cache[lo], Ref(g, hi))
             IN  IF vertex_a > vertex_b
                 THEN IF i = 0 THEN Outcome(g, "TypeError", <<>>)
                      ELSE Outcome(g, "None", Reverse(g.hops_cache[lo][i].hops))
                 ELSE IF i # 0
                 THEN Outcome(g, "None", g.hops_cache[lo][i].hops)
                 ELSE LET walk == BreadthFirst(
                                    g, vertex_b,
                                    [g.breadcrumb EXCEPT ![vertex_a] = vertex_a],
                                    <<vertex_a>>)
                          marked == [g EXCEPT !.breadcrumb = walk.breadcrumb]
                      IN  IF ~walk.found
                          THEN Outcome(marked, "GraphPartitionedError", <<>>)
                          ELSE LET back == FollowBreadcrumbs(
                                             marked, vertex_a, vertex_b,
                                             walk.breadcrumb[vertex_b], <<>>)
                                   path == [k \in 1 .. Len(back.hops) |->
                                                Ref(g, back.hops[k])]
                               IN  Outcome(
                                     [back.g EXCEPT
                                        !.hops_cache = hops_cache_set(
                                            back.g, vertex_a, vertex_b, path),
                                        !.breadcrumb =
                                            Array([v \in Vertices(g) |-> None])],
                                     "None", path)

(* combinations(self.vertices, 2), in itertools' order. *)
Combinations2(g) ==
    LET pairs == {p \in Vertices(g) \X Vertices(g) : p[1] < p[2]}
        Before(p, q) == p[1] < q[1] \/ (p[1] = q[1] /\ p[2] < q[2])
    IN  [i \in 1 .. Cardinality(pairs) |->
            CHOOSE p \in pairs : Cardinality({q \in pairs : Before(q, p)}) = i - 1]

(* analyze(), lines 555-560: the loop over the pairs from index i on. *)
RECURSIVE AnalyzePairs(_, _, _, _, _, _)
AnalyzePairs(g, pairs, i, longest_shortest_path, lengths_sum, dirtyRefs) ==
    IF i > Len(pairs)
    THEN Outcome([g EXCEPT !.diameter = longest_shortest_path,
                           !.aspl = lengths_sum],
                 "None", <<>>)
    ELSE LET h == hops(g, pairs[i][1], pairs[i][2], dirtyRefs)
             length == Len(h.ret) + 1
         IN  IF h.raised # "None" THEN Outcome(h.g, h.raised, <<>>)
             ELSE AnalyzePairs(h.g, pairs, i + 1,
                               IF longest_shortest_path < length
                               THEN length ELSE longest_shortest_path,
                               lengths_sum + length, dirtyRefs)

analyze(g0, dirtyRefs) ==
    LET g == IF g0.dirty THEN clean(g0, dirtyRefs) ELSE g0
    IN  AnalyzePairs(g, Combinations2(g), 1, -1, 0, dirtyRefs)

(* edges(): the set of ordered tuples (lower id first). *)
edges(g) ==
    {IF a < g.edges_to[a][i] THEN <<a, g.edges_to[a][i]>>
                             ELSE <<g.edges_to[a][i], a>> :
        <<a, i>> \in {<<v, j>> \in Vertices(g) \X (1 .. g.degree + 1) :
                        j <= Len(g.edges_to[v])}}

(* Every order shuffle() or sample(x, len(x)) can leave a list in. *)
Perms(S) ==
    {p \in [1 .. Cardinality(S) -> S] :
        \A i, j \in 1 .. Cardinality(S) : i # j => p[i] # p[j]}

Shuffles(list) == {[i \in 1 .. Len(list) |-> list[p[i]]] : p \in Perms(1 .. Len(list))}

(* A search for vertex_b that does not skip the vertices vertex_a is     *)
(* connected to already.                                                  *)
RECURSIVE SearchIgnoringExistingEdges(_, _, _, _, _)
SearchIgnoringExistingEdges(g, vertex_a, current_vertices, overall_vertices, vertex_b_i) ==
    IF vertex_b_i > Len(current_vertices)
    THEN [g |-> g, current |-> current_vertices, overall |-> overall_vertices,
          raised |-> "None"]
    ELSE LET vertex_b == current_vertices[vertex_b_i]
         IN  IF Len(g.edges_to[vertex_b]) = g.degree
             THEN SearchIgnoringExistingEdges(
                      g, vertex_a, ListPop(current_vertices, vertex_b_i),
                      ListRemove(overall_vertices, vertex_b), vertex_b_i)
             ELSE LET added == add_edge_unsafe(g, vertex_a, vertex_b)
                  IN  [g |-> added.g, current |-> current_vertices,
                       overall |-> overall_vertices, raised |-> added.raised]

(* add_as_many_random_edges_as_possible(), lines 386-406: the search for  *)
(* a vertex_b among current_vertices from index vertex_b_i (1-based) on.  *)
RECURSIVE SearchVertexB(_, _, _, _, _)
SearchVertexB(g, vertex_a, current_vertices, overall_vertices, vertex_b_i) ==
    IF vertex_b_i > Len(current_vertices)
    THEN [g |-> g, current |-> current_vertices, overall |-> overall_vertices,
          raised |-> "None"]
    ELSE LET vertex_b == current_vertices[vertex_b_i]
         IN  IF Len(g.edges_to[vertex_b]) = g.degree
             THEN IF ~Contains(overall_vertices, vertex_b)
                  THEN [g |-> g, current |-> current_vertices,
                        overall |-> overall_vertices, raised |-> "ValueError"]
                  ELSE SearchVertexB(g, vertex_a,
                                     ListPop(current_vertices, vertex_b_i),
                                     ListRemove(overall_vertices, vertex_b),
                                     vertex_b_i)
             ELSE IF Len(g.edges_to[vertex_b]) > g.degree
             THEN [g |-> g, current |-> current_vertices,
                   overall |-> overall_vertices, raised |-> "AssertionError"]
             ELSE IF Contains(g.edges_to[vertex_a], vertex_b)
             THEN SearchVertexB(g, vertex_a, current_vertices, overall_vertices,
                                vertex_b_i + 1)
             ELSE LET added == add_edge_unsafe(g, vertex_a, vertex_b)
                  IN  [g |-> added.g, current |-> current_vertices,
                       overall |-> overall_vertices, raised |-> added.raised]

(* Lines 363-406: one round, pairing off the shuffled current_vertices. *)
RECURSIVE PairOff(_, _, _)
PairOff(g, current_vertices, overall_vertices) ==
    IF Len(current_vertices) <= 1
    THEN [g |-> g, overall |-> overall_vertices, raised |-> "None"]
    ELSE LET vertex_a == Head(current_vertices)
             rest == Tail(current_vertices)
         IN  IF Len(g.edges_to[vertex_a]) = g.degree
             THEN PairOff(g, rest, ListRemove(overall_vertices, vertex_a))
             ELSE IF Len(g.edges_to[vertex_a]) > g.degree
             THEN [g |-> g, overall |-> overall_vertices,
                   raised |-> "AssertionError"]
             ELSE LET r == SearchVertexB(g, vertex_a, rest, overall_vertices, 1)
                  IN  IF r.raised # "None"
                      THEN [g |-> r.g, overall |-> r.overall, raised |-> r.raised]
                      ELSE PairOff(r.g, r.current, r.overall)

(* Lines 349-360: the rounds left, for every outcome of the shuffles. *)
RECURSIVE RandomRounds(_, _, _)
RandomRounds(g, overall_vertices, rounds) ==
    IF rounds = 0 \/ Len(overall_vertices) < 2
    THEN {Outcome(g, "None", <<>>)}
    ELSE UNION {IF r.raised # "None"
                THEN {Outcome(r.g, r.raised, <<>>)}
                ELSE RandomRounds(r.g, r.overall, rounds - 1) :
                r \in {PairOff(g, current_vertices, overall_vertices) :
                          current_vertices \in Shuffles(overall_vertices)}}

(* The completion run with one port more a vertex than the degree. *)
complete_beyond_degree(g) ==
    {Outcome([o.g EXCEPT !.degree = g.degree], o.raised, o.ret) :
        o \in RandomRounds([g EXCEPT !.degree = g.degree + 1],
                           [i \in 1 .. g.order |-> i - 1], g.degree + 1)}

(* add_as_many_random_edges_as_possible(limit_to_vertices=None): the set  *)
(* of outcomes over the shuffles.                                         *)
add_as_many_random_edges_as_possible(g) ==
    RandomRounds(g, [i \in 1 .. g.order |-> i - 1], g.degree)

(* duplicate(), lines 592-597, and __setstate__(), lines 768-769: the   *)
(* edges of the sequence es from index i on are added to g.               *)
RECURSIVE AddEdges(_, _, _)
AddEdges(g, es, i) ==
    IF i > Len(es) THEN Outcome(g, "None", <<>>)
    ELSE LET added == add_edge_unsafe(g, es[i][1], es[i][2])
         IN  IF added.raised # "None" THEN added
             ELSE AddEdges(added.g, es, i + 1)

(* duplicate() without line 608: the duplicate keeps the _dirty that the  *)
(* adding of its edges gave it.                                           *)
DuplicateKeepingOwnDirty(g, gid, es) ==
    LET dup == AddEdges(GolfGraph(gid, g.order, g.degree), es, 1)
    IN  IF dup.raised # "None" THEN dup
        ELSE Outcome([dup.g EXCEPT !.hops_cache = g.hops_cache,
                                   !.vdirty = g.vdirty,
                                   !.diameter = g.diameter,
                                   !.aspl = g.aspl],
                     "None", <<>>)

(* duplicate() when the set self.edges() is iterated in the order es. The *)
(* caches are shallow copies: their keys and hops stay the Vertex objects *)
(* of the graph duplicated (lines 600-602).                               *)
DuplicateInOrder(g, gid, es) ==
    LET dup == AddEdges(GolfGraph(gid, g.order, g.degree), es, 1)
    IN  IF dup.raised # "None" THEN dup
        ELSE Outcome([dup.g EXCEPT !.hops_cache = g.hops_cache,
                                   !.vdirty = g.vdirty,
                                   !.diameter = g.diameter,
                                   !.aspl = g.aspl,
                                   !.dirty = g.dirty],
                     "None", <<>>)

(* duplicate() handing back the graph itself instead of a copy. *)
duplicate_returning_self(g, gid) == {Outcome(g, "None", <<>>)}

(* duplicate(): a new object gid; the iteration order of the set of edges *)
(* follows the hashes of the Vertex objects, i.e. their addresses.        *)
duplicate(g, gid) == {DuplicateInOrder(g, gid, es) : es \in Perms(edges(g))}

(* __getstate__(), lines 744-750: one cache as a dict keyed by vertex id. *)
RECURSIVE CacheById(_, _, _)
CacheById(items, i, dict) ==
    IF i > Len(items) THEN dict
    ELSE CacheById(items, i + 1,
                   DictSet(dict, items[i].target[2],
                           [j \in 1 .. Len(items[i].hops) |-> items[i].hops[j][2]]))

(* __getstate__(): cleans the graph pickled, if dirty (line 726), and     *)
(* collects its attributes, its edges (in the order es) and its caches.   *)
getstate(g0, dirtyRefs, es) ==
    LET g == IF g0.dirty THEN clean(g0, dirtyRefs) ELSE g0
    IN  [order |-> g.order, degree |-> g.degree,
         diameter |-> g.diameter, aspl |-> g.aspl, dirty |-> g.dirty,
         edges |-> es,
         hops_caches |-> Array([v \in Vertices(g) |->
                                   CacheById(g.hops_cache[v], 1, <<>>)])]

(* __setstate__(): a new object gid with vertices of its own. *)
setstate(gid, state) ==
    LET built == AddEdges(GolfGraph(gid, state.order, state.degree), state.edges, 1)
    IN  IF built.raised # "None" THEN built
        ELSE Outcome(
               [built.g EXCEPT
                  !.hops_cache = Array([v \in 0 .. (state.order - 1) |->
                      [i \in 1 .. Len(state.hops_caches[v]) |->
                          [target |-> <<gid, state.hops_caches[v][i].target>>,
                           hops |-> [j \in 1 .. Len(state.hops_caches[v][i].hops) |->
                                       <<gid, state.hops_caches[v][i].hops[j]>>]]]]),
                  !.vdirty = Array([v \in 0 .. (state.order - 1) |-> FALSE]),
                  !.diameter = state.diameter,
                  !.aspl = state.aspl,
                  !.dirty = state.dirty],
               "None", <<>>)

(* pickle.loads(pickle.dumps(g)): every outcome of the edge order. *)
loads_dumps(g, gid, dirtyRefs) ==
    {setstate(gid, getstate(g, dirtyRefs, es)) : es \in Perms(edges(g))}

(* ----------------------------- enhancers ------------------------------ *)
(* An enhancer is named by its class. Registry.enhancers holds the one    *)
(* class registered (enhancers.py:411).                                   *)
Registered == {"RandomlyReplaceTenPercentEdges"}

Enhancers == Registered \cup {"RandomlyRelinkMostDistantVertices"}

PERCENTAGE == 10

(* sample(population, n): n distinct positions in random order. *)
Samples(S, n) ==
    {p \in [1 .. n -> S] : \A i, j \in 1 .. n : i # j => p[i] # p[j]}

(* AbstractRandomlyReplacePercentageOfEdges._number_of_edges_to_replace *)
number_of_edges_to_replace(g) == (PERCENTAGE * g.order) \div 100

applicable_to(enhancer, g) ==
    IF enhancer = "RandomlyReplaceTenPercentEdges"
    THEN g.order > g.degree - 1 /\ number_of_edges_to_replace(g) > 0
    ELSE g.order > g.degree - 1

(* remove_random_edge(), lines 159-162, for one sampled order of the      *)
(* neighbours, from index i on. Returns the neighbour, or None.           *)
RECURSIVE FirstRemovable(_, _, _, _, _)
FirstRemovable(g, vertex, sampled, i, allow_complete_disconnect) ==
    IF i > Len(sampled) THEN Outcome(g, "None", None)
    ELSE IF Len(g.edges_to[sampled[i]]) > 1 \/ allow_complete_disconnect
    THEN LET removed == remove_edge_unsafe(g, vertex, sampled[i])
         IN  Outcome(removed.g, removed.raised,
                     IF removed.raised = "None" THEN sampled[i] ELSE None)
    ELSE FirstRemovable(g, vertex, sampled, i + 1, allow_complete_disconnect)

remove_random_edge(g, vertex, allow_complete_disconnect) ==
    {FirstRemovable(g, vertex, sampled, 1, allow_complete_disconnect) :
        sampled \in Shuffles(g.edges_to[vertex])}

ensure_can_add_edge(g, vertex) ==
    IF Len(g.edges_to[vertex]) > g.degree
    THEN {Outcome(g, "AssertionError", None)}
    ELSE IF Len(g.edges_to[vertex]) = g.degree
    THEN remove_random_edge(g, vertex, TRUE)
    ELSE {Outcome(g, "None", None)}

(* longest_paths(), lines 199-211: the loop over the pairs from i on. *)
RECURSIVE LongestPathsLoop(_, _, _, _, _, _)
LongestPathsLoop(g, pairs, i, hops_count_max, longest_paths, dirtyRefs) ==
    IF i > Len(pairs)
    THEN Outcome(g, IF longest_paths = <<>> THEN "AssertionError" ELSE "None",
                 longest_paths)
    ELSE LET h == hops(g, pairs[i][1], pairs[i][2], dirtyRefs)
             hops_count == Len(h.ret)
         IN  IF h.raised # "None" THEN Outcome(h.g, h.raised, <<>>)
             ELSE IF hops_count = hops_count_max
             THEN LongestPathsLoop(h.g, pairs, i + 1, hops_count_max,
                                   Append(longest_paths, pairs[i]), dirtyRefs)
             ELSE IF hops_count > hops_count_max
             THEN LongestPathsLoop(h.g, pairs, i + 1, hops_count,
                                   <<pairs[i]>>, dirtyRefs)
             ELSE LongestPathsLoop(h.g, pairs, i + 1, hops_count_max,
                                   longest_paths, dirtyRefs)

longest_paths(g, dirtyRefs) ==
    LongestPathsLoop(g, Combinations2(g), 1, 0, <<>>, dirtyRefs)

(* chain.from_iterable(pairs) *)
Chain(pairs) ==
    [i \in 1 .. 2 * Len(pairs) |-> pairs[(i + 1) \div 2][2 - (i % 2)]]

(* vertices_to_consider(): the outcomes, each returning a vertex list. *)
vertices_to_consider(enhancer, g, dirtyRefs) ==
    IF enhancer = "RandomlyReplaceTenPercentEdges"
    THEN {Outcome(g, "None", sampled) :
             sampled \in Samples(Vertices(g), number_of_edges_to_replace(g))}
    ELSE LET found == longest_paths(g, dirtyRefs)
         IN  {Outcome(found.g, found.raised,
                      IF found.raised = "None" THEN Chain(found.ret) ELSE <<>>)}

(* modify_graph(), lines 241-242: ensure_can_add_edge for the vertices    *)
(* of the list from index i on.                                           *)
RECURSIVE EnsureAll(_, _, _)
EnsureAll(g, vertices, i) ==
    IF i > Len(vertices) THEN {Outcome(g, "None", <<>>)}
    ELSE UNION {IF e.raised # "None" THEN {Outcome(e.g, e.raised, <<>>)}
                ELSE EnsureAll(e.g, vertices, i + 1) :
                e \in ensure_can_add_edge(g, vertices[i])}

(* AbstractRandomlyRelinkVertices.modify_graph(): the graph is modified   *)
(* in place and returned.                                                 *)
modify_graph(enhancer, g, dirtyRefs) ==
    IF ~applicable_to(enhancer, g) THEN {Outcome(g, "AssertionError", <<>>)}
    ELSE UNION {IF c.raised # "None" THEN {Outcome(c.g, c.raised, <<>>)}
                ELSE UNION {IF e.raised # "None" THEN {e}
                            ELSE add_as_many_random_edges_as_possible(e.g) :
                            e \in EnsureAll(c.g, c.ret, 1)} :
                c \in vertices_to_consider(enhancer, g, dirtyRefs)}

(* ====================== the graph engine: Spec ======================== *)
(* One graph object, driven through its public operations.  An            *)
(* AssertionError, ValueError or TypeError ends the run of the program;   *)
(* a GraphPartitionedError is caught by the callers (enhancers.py:123,    *)
(* 134), which go on using the graph.                                     *)
NoGraph == GolfGraph(None, 2, 2)

Running == raised \in {"None", "GraphPartitionedError"}

(* The dirty Vertex objects a cache of graph can refer to: its own and    *)
(* those of the graph it was duplicated from.                             *)
Dirty == DirtyRefs(graph) \cup DirtyRefs(best_graph)

Apply(name, out) ==
    /\ graph' = out.g
    /\ raised' = out.raised
    /\ returned' = out.ret
    /\ last' = name
    /\ UNCHANGED <<best_graph, enhanceVars, runVars, moreVars>>

(* No enhancer and no tournament is running. *)
NoEnhance ==
    /\ enhancing = "None" /\ pc = "None" /\ modification = 0
    /\ report_queue = <<>>

NoTournament ==
    /\ enhancers = <<>> /\ processes = <<>> /\ workers = {}
    /\ in_flight = {} /\ round = 0 /\ once = FALSE

(* No HopsCache, no completion in rounds and no edges file is in use. *)
NoCache == data = <<>> /\ copy = <<>> /\ called = <<>>

NoRounds == vertices_left = <<>> /\ rounds_begun = 0

NoFile == edges_file = <<>>

NoRun == NoTournament /\ NoCache /\ NoRounds /\ NoFile

Init ==
    /\ \E order \in 2 .. MaxOrder, degree \in 2 .. MaxDegree :
          graph = GolfGraph(0, order, degree)
    /\ best_graph = NoGraph
    /\ raised = "None"
    /\ last = "__init__"
    /\ returned = <<>>
    /\ ops = 0
    /\ NoEnhance /\ NoRun

AddEdge ==
    /\ Running /\ ops < MaxOps
    /\ \E a \in Vertices(graph), b \in Vertices(graph) :
          Apply("add_edge_unsafe", add_edge_unsafe(graph, a, b))
    /\ ops' = ops + 1

RemoveEdge ==
    /\ Running /\ ops < MaxOps
    /\ \E a \in Vertices(graph), b \in Vertices(graph) :
          Apply("remove_edge_unsafe", remove_edge_unsafe(graph, a, b))
    /\ ops' = ops + 1

Hops ==
    /\ Running
    /\ \E a \in Vertices(graph), b \in Vertices(graph) :
          Apply("hops", hops(graph, a, b, Dirty))
    /\ UNCHANGED ops

Analyze ==
    /\ Running
    /\ Apply("analyze", analyze(graph, Dirty))
    /\ UNCHANGED ops

Next == AddEdge \/ RemoveEdge \/ Hops \/ Analyze

Spec == Init /\ [][Next]_vars

(* ------------------- what the edge set really says -------------------- *)
HasEdge(g, a, b) == <<a, b>> \in edges(g) \/ <<b, a>> \in edges(g)

(* The vertices at most d edges away from a. *)
RECURSIVE Within(_, _, _)
Within(g, a, d) ==
    IF d = 0 THEN {a}
    ELSE LET W == Within(g, a, d - 1)
         IN  W \cup {v \in Vertices(g) : \E w \in W : HasEdge(g, w, v)}

Distance(g, a, b) ==
    IF b \notin Within(g, a, g.order - 1) THEN None
    ELSE CHOOSE d \in 0 .. (g.order - 1) :
            b \in Within(g, a, d) /\ (d = 0 \/ b \notin Within(g, a, d - 1))

Connected(g) == \A b \in Vertices(g) : b \in Within(g, 0, g.order - 1)

Pairs(g) == {p \in Vertices(g) \X Vertices(g) : p[1] < p[2]}

TrueDiameter(g) ==
    IF ~Connected(g) THEN None
    ELSE CHOOSE d \in 0 .. g.order :
            /\ \A p \in Pairs(g) : Distance(g, p[1], p[2]) <= d
            /\ \E p \in Pairs(g) : Distance(g, p[1], p[2]) = d

RECURSIVE SumOfDistances(_, _)
SumOfDistances(g, pairs) ==
    IF pairs = {} THEN 0
    ELSE LET p == CHOOSE q \in pairs : TRUE
         IN  Distance(g, p[1], p[2]) + SumOfDistances(g, pairs \ {p})

TrueLengthsSum(g) == IF ~Connected(g) THEN None ELSE SumOfDistances(g, Pairs(g))

(* The cache entry e of vertex lo is the interior of a shortest path that *)
(* exists in the edge set.                                                *)
EntryIsShortestPath(g, lo, e) ==
    LET walk == <<lo>> \o [i \in 1 .. Len(e.hops) |-> e.hops[i][2]] \o <<e.target[2]>>
    IN  /\ \A i \in 1 .. (Len(walk) - 1) : HasEdge(g, walk[i], walk[i + 1])
        /\ Len(e.hops) = Distance(g, lo, e.target[2]) - 1

StaleEntries(g) ==
    {<<lo, i>> \in Vertices(g) \X (1 .. MaxOrder + 1) :
        /\ i <= Len(g.hops_cache[lo])
        /\ ~EntryIsShortestPath(g, lo, g.hops_cache[lo][i])}

(* C5: whenever analyze() completes without error, diameter is the       *)
(* largest and aspl the mean of the true shortest-path hop counts over   *)
(* all unordered pairs of the current edge set (the aspl field holds the *)
(* sum; the number of pairs is fixed by the order).                      *)
C5_AnalyzeIsExact ==
    (last = "analyze" /\ raised = "None") =>
        /\ graph.diameter = TrueDiameter(graph)
        /\ graph.aspl = TrueLengthsSum(graph)

(* C6: in every state in which the graph is not dirty, every hops-cache  *)
(* entry is the interior of a shortest path of the current edge set.     *)
C6_CleanCacheIsValid == ~graph.dirty => StaleEntries(graph) = {}

Complete ==
    /\ Running /\ ops < MaxOps
    /\ \E out \in add_as_many_random_edges_as_possible(graph) :
          Apply("add_as_many_random_edges_as_possible", out)
    /\ ops' = ops + 1

RemoveRandomEdge ==
    /\ Running /\ ops < MaxOps
    /\ \E vertex \in Vertices(graph), allow_complete_disconnect \in BOOLEAN :
          \E out \in remove_random_edge(graph, vertex, allow_complete_disconnect) :
             Apply("remove_random_edge", out)
    /\ ops' = ops + 1

ModifyGraph ==
    /\ Running /\ ops < MaxOps
    /\ \E e \in Enhancers : \E out \in modify_graph(e, graph, Dirty) :
          Apply("modify_graph", out)
    /\ ops' = ops + 1

(* graph = graph.duplicate(): the graph duplicated stays alive, because   *)
(* the caches of the duplicate refer to its vertices.                     *)
Duplicate ==
    /\ Running /\ ops < MaxOps
    /\ graph.gid = 0
    /\ \E out \in duplicate(graph, 1) :
          /\ graph' = out.g
          /\ raised' = out.raised
          /\ returned' = <<>>
    /\ best_graph' = graph
    /\ last' = "duplicate"
    /\ ops' = ops + 1
    /\ UNCHANGED <<enhanceVars, runVars, moreVars>>

(* graph = loads(dumps(graph)): the unpickled object takes the place of   *)
(* the pickled one.                                                       *)
PickleUnpickle ==
    /\ Running /\ ops < MaxOps
    /\ \E out \in loads_dumps(graph, graph.gid, Dirty) :
          Apply("loads_dumps", out)
    /\ ops' = ops + 1

NextRandom ==
    \/ (ops < MaxRandomOps /\ AddEdge)
    \/ (ops < MaxRandomOps /\ RemoveEdge)
    \/ (ops < MaxRandomOps /\ Complete)
    \/ (ops < MaxRandomOps /\ RemoveRandomEdge)
    \/ (ops < MaxRandomOps /\ ModifyGraph)
    \/ (ops < MaxRandomOps /\ Duplicate)
    \/ (ops < MaxRandomOps /\ PickleUnpickle)

(* Cli.load_edges(): the edges of the file, one per line, are added to    *)
(* the new graph.                                                         *)
load_edges(g, lines) == AddEdges(g, lines, 1)

(* The edge files: at most maxEdges lines, sorted, no line twice and no   *)
(* vertex on more lines than the degree.                                  *)
EdgeFiles(g, maxEdges) ==
    LET all == Combinations2(g)
        ok(S) == /\ Cardinality(S) <= maxEdges
                 /\ \A v \in Vertices(g) :
                       Cardinality({i \in S : v \in {all[i][1], all[i][2]}}) <= g.degree
        sorted(S) == [k \in 1 .. Cardinality(S) |->
                        all[CHOOSE i \in S : Cardinality({j \in S : j < i}) = k - 1]]
    IN  {sorted(S) : S \in {T \in SUBSET (1 .. Len(all)) : ok(T)}}

(* The state after the graph was constructed and the edge file loaded    *)
(* (cli.py:109-111).                                                      *)
InitLoaded(maxOrder, maxEdges) ==
    /\ \E order \in 2 .. maxOrder, degree \in 2 .. MaxDegree :
          \E lines \in EdgeFiles(GolfGraph(0, order, degree), maxEdges) :
             graph = load_edges(GolfGraph(0, order, degree), lines).g
    /\ best_graph = NoGraph
    /\ raised = "None"
    /\ last = "load_edges"
    /\ returned = <<>>
    /\ ops = 0
    /\ NoEnhance /\ NoRun

InitRandom == InitLoaded(MaxOrder, MaxOrder * MaxDegree)

SpecRandom == InitRandom /\ [][NextRandom]_vars

(* ============ the random completion alone: SpecCompletion ============== *)
InitCompletion == InitLoaded(MaxCompletionOrder, MaxLoadedEdges)

NextCompletion ==
    \/ (ops < MaxCompletionOps /\ RemoveRandomEdge)
    \/ (ops < MaxCompletionOps /\ Complete)

SpecCompletion == InitCompletion /\ [][NextCompletion]_vars

(* C10: after the random completion has returned, no further edge can be *)
(* added: any two distinct vertices that both have fewer than degree     *)
(* neighbours are adjacent to each other.                                *)
C10_CompletionUsesAllEdges ==
    (last = "add_as_many_random_edges_as_possible" /\ raised = "None") =>
        \A v \in Vertices(graph), w \in Vertices(graph) :
            (/\ v # w
             /\ Len(graph.edges_to[v]) < graph.degree
             /\ Len(graph.edges_to[w]) < graph.degree)
            => Contains(graph.edges_to[v], w)

(* The vertex invariants: at most degree neighbours, no vertex its own    *)
(* neighbour, no neighbour twice.                                         *)
VertexInvariants(g) ==
    \A v \in Vertices(g) :
        /\ Len(g.edges_to[v]) <= g.degree
        /\ ~Contains(g.edges_to[v], v)
        /\ Cardinality(SeqToSet(g.edges_to[v])) = Len(g.edges_to[v])

Symmetric(g) ==
    \A v \in Vertices(g), w \in Vertices(g) :
        Contains(g.edges_to[w], v) <=> Contains(g.edges_to[v], w)

C9_AdjacencyIsSymmetric == Symmetric(graph) /\ Symmetric(best_graph)

(* A graph with edges has come out of a copy (duplicate or pickle). *)
C9_Witness ==
    /\ last \in {"duplicate", "loads_dumps"}
    /\ edges(graph) # {}
    /\ Symmetric(graph)


(***************************************************************************)
(* AbstractBase.enhance(best_graph, report_queue), enhancers.py:95-139.    *)
(* graph is current_graph; self.active stays True (line 74), so the while  *)
(* loop ends only by a return or an exception.                             *)
(***************************************************************************)

(* Maximum number of graphs in the report queue. *)
MaxQueue == 3

(* __lt__ answering "not worse" instead of "better". *)
LtOrEqual(a, b) ==
    IF \/ a.order # b.order \/ a.degree # b.degree
       \/ a.diameter = None \/ a.aspl = None
       \/ b.diameter = None \/ b.aspl = None
       \/ a.dirty \/ b.dirty
    THEN Outcome(a, "AssertionError", FALSE)
    ELSE IF a.diameter > b.diameter THEN Outcome(a, "None", FALSE)
    ELSE IF a.diameter < b.diameter THEN Outcome(a, "None", TRUE)
    ELSE Outcome(a, "None", a.aspl <= b.aspl)

(* GolfGraph.__lt__(): the answer, or the exception raised.  aspl holds    *)
(* lengths_sum; the divisor lengths_count is the same for equal orders.    *)
Lt(a, b) ==
    IF \/ a.order # b.order \/ a.degree # b.degree
       \/ a.diameter = None \/ a.aspl = None
       \/ b.diameter = None \/ b.aspl = None
       \/ a.dirty \/ b.dirty
    THEN Outcome(a, "AssertionError", FALSE)
    ELSE IF a.diameter > b.diameter THEN Outcome(a, "None", FALSE)
    ELSE IF a.diameter < b.diameter THEN Outcome(a, "None", TRUE)
    ELSE Outcome(a, "None", a.aspl < b.aspl)

MODIFICATIONS == None

modifications(g) ==
    IF MODIFICATIONS # None THEN MODIFICATIONS ELSE g.order * g.degree

(* Two names bound to the same object: what is done to one is done to     *)
(* the other.                                                              *)
SameObject(a, b) == a.gid = b.gid

(* report_queue.put(g) by process by: the queue holds what was pickled.   *)
Put(queue, g, by) == Append(queue, [graph |-> g, by |-> by])

(* The end of one iteration of the for loop: the next iteration, or the   *)
(* next iteration of the while loop when the range is used up.            *)
EndOfIteration ==
    /\ modification' = modification + 1
    /\ pc' = IF modification + 1 = modifications(best_graph)
             THEN "while" ELSE "for"
    /\ UNCHANGED report_queue

(* An exception leaves enhance(): the process ends. *)
EnhanceRaises(exc) ==
    /\ raised' = exc
    /\ pc' = "raised"
    /\ UNCHANGED <<modification, report_queue>>

(* Lines 102-108: the assertion and the early return. *)
EnhanceCall ==
    /\ pc = "enhance"
    /\ IF best_graph.aspl = None \/ best_graph.diameter = None
       THEN raised' = "AssertionError" /\ pc' = "raised"
       ELSE /\ raised' = "None"
            /\ pc' = IF best_graph.order - 1 <= best_graph.degree
                     THEN "returned" ELSE "while"
    /\ last' = "enhance"
    /\ UNCHANGED <<graph, best_graph, returned, ops, enhancing,
                   modification, report_queue, runVars, moreVars>>

(* Lines 113-116: a new copy of best_graph. *)
EnhanceDuplicate ==
    /\ pc = "while"
    /\ \E out \in duplicate(best_graph, 1) :
          /\ graph' = out.g
          /\ IF out.raised # "None"
             THEN EnhanceRaises(out.raised)
             ELSE /\ raised' = "None"
                  /\ modification' = 0
                  /\ pc' = "for"
                  /\ UNCHANGED report_queue
          /\ best_graph' = IF SameObject(out.g, best_graph)
                           THEN out.g ELSE best_graph
    /\ last' = "duplicate"
    /\ UNCHANGED <<returned, ops, enhancing, runVars, moreVars>>

(* Lines 136-139: the comparison with best_graph, and the put. *)
Compare(current_graph, lt) ==
    IF lt.raised # "None" THEN Outcome(current_graph, lt.raised, "raise")
    ELSE IF lt.ret THEN Outcome(current_graph, "None", "put")
    ELSE Outcome(current_graph, "None", "continue")

(* The analysis without the try of lines 131-134: GraphPartitionedError   *)
(* leaves enhance().                                                      *)
JudgeWithoutCatching(analyzed, best) ==
    IF analyzed.raised # "None"
    THEN Outcome(analyzed.g, analyzed.raised, "raise")
    ELSE Compare(analyzed.g,
                 Lt(analyzed.g,
                    IF SameObject(analyzed.g, best) THEN analyzed.g ELSE best))

(* Lines 131-139: the analysis of the modified graph; a partitioned graph *)
(* is given up for this iteration.                                        *)
Judge(analyzed, best) ==
    IF analyzed.raised = "GraphPartitionedError"
    THEN Outcome(analyzed.g, "None", "continue")
    ELSE IF analyzed.raised # "None"
    THEN Outcome(analyzed.g, analyzed.raised, "raise")
    ELSE Compare(analyzed.g,
                 Lt(analyzed.g,
                    IF SameObject(analyzed.g, best) THEN analyzed.g ELSE best))

(* Lines 118-139: one iteration of the for loop on current_graph; each    *)
(* outcome tells how the iteration ends: "continue", "put" or "raise".    *)
(* A GolfGraph is always true, so line 127 never returns.                 *)
Iteration(enhancer, current_graph, best, dirtyRefs) ==
    {IF out.raised = "GraphPartitionedError"
     THEN Outcome(out.g, "None", "continue")
     ELSE IF out.raised # "None"
     THEN Outcome(out.g, out.raised, "raise")
     ELSE Judge(analyze(out.g, DirtyRefs(out.g) \cup DirtyRefs(best)), best) :
        out \in modify_graph(enhancer, current_graph, dirtyRefs)}

EnhanceModify ==
    /\ pc = "for"
    /\ \E it \in Iteration(enhancing, graph, best_graph, Dirty) :
          /\ graph' = it.g
          /\ best_graph' = IF SameObject(it.g, best_graph)
                           THEN it.g ELSE best_graph
          /\ IF it.ret = "raise" THEN EnhanceRaises(it.raised)
             ELSE IF it.ret = "put"
             THEN /\ report_queue' = Put(report_queue, it.g, None)
                  /\ pc' = "returned"
                  /\ raised' = "None"
                  /\ UNCHANGED modification
             ELSE raised' = "None" /\ EndOfIteration
    /\ last' = "modify_graph"
    /\ UNCHANGED <<returned, ops, enhancing, runVars, moreVars>>

NextEnhance == EnhanceCall \/ EnhanceDuplicate \/ EnhanceModify

(* Cli.run(), cli.py:109-120, with an edge file: the graph is loaded and  *)
(* analyzed; it is what enhance() is called with.                         *)
InitialGraphs(order, degree) ==
    LET empty == GolfGraph(0, order, degree)
        built == {load_edges(empty, lines).g :
                      lines \in EdgeFiles(empty, order * degree)}
        analyzed == {analyze(g, DirtyRefs(g)) : g \in built}
    IN  {out.g : out \in {o \in analyzed : o.raised = "None"}}

InitEnhance ==
    /\ \E order \in 2 .. MaxOrder, degree \in 2 .. MaxDegree :
          best_graph \in InitialGraphs(order, degree)
    /\ graph = NoGraph
    /\ enhancing \in Enhancers
    /\ pc = "enhance"
    /\ modification = 0
    /\ report_queue = <<>>
    /\ raised = "None"
    /\ last = "analyze"
    /\ returned = <<>>
    /\ ops = 0
    /\ NoRun

SpecEnhance == InitEnhance /\ [][NextEnhance]_vars


(***************************************************************************)
(* Cli._run(), cli.py:131-171: the tournament.  The controller creates a   *)
(* process per applicable enhancer, waits for the first graph on the       *)
(* report queue, terminates the processes, drains the queue and starts     *)
(* over.  The queue lives in the Manager process: a put is a request sent  *)
(* to the Manager, which appends the graph when it serves the request;     *)
(* terminate() sends SIGTERM and does not wait for the process to end.     *)
(* The controller never looks at the edges of a graph, so the graphs here  *)
(* carry their order, degree and analysis only.                            *)
(***************************************************************************)

(* Bounds: registrations, rounds, the order the tournament is run for, and *)
(* the analyses a graph of the tournament can have.                        *)
MaxEnhancers == 2
MaxRounds == 3
TournamentOrder == 10
TournamentDegree == 3
MaxDiameter == 3
MaxExcess == 1

(* A graph of the tournament with the analysis (diameter, lengths sum). *)
Analyzed(order, degree, diameter, aspl) ==
    [GolfGraph(0, order, degree) EXCEPT !.diameter = diameter, !.aspl = aspl]

(* The analyses: diameters from 2 on, and sums of lengths from the least  *)
(* one on (every pair that is no edge is two hops apart or more).         *)
TournamentGraphs(order, degree) ==
    LET pairs == (order * (order - 1)) \div 2
        least == 2 * pairs - (order * degree) \div 2
    IN  {Analyzed(order, degree, diameter, aspl) :
            diameter \in 2 .. MaxDiameter,
            aspl \in least .. (least + MaxExcess)}

(* enhance(), lines 136-139: what a worker started with best can put. *)
Enhanced(best) ==
    {g \in TournamentGraphs(best.order, best.degree) :
        Lt(g, best).raised = "None" /\ Lt(g, best).ret}

(* Lines 143-154: the processes are created and started. *)
RunStart ==
    /\ pc = "create"
    /\ round < MaxRounds
    /\ round' = round + 1
    /\ LET applicable == {i \in 1 .. Len(enhancers) :
                              applicable_to(enhancers[i], best_graph)}
           created == [k \in 1 .. Cardinality(applicable) |->
                         <<round + 1,
                           CHOOSE i \in applicable :
                              Cardinality({j \in applicable : j < i}) = k - 1>>]
       IN  /\ processes' = processes \o created
           /\ workers' = workers \cup
                 {[pid |-> created[k], best |-> best_graph, signalled |-> FALSE] :
                     k \in 1 .. Len(created)}
    /\ pc' = "get"
    /\ last' = "start"
    /\ UNCHANGED <<graph, best_graph, raised, returned, ops, enhancing,
                   modification, report_queue, enhancers, in_flight, once,
                   moreVars>>

(* Line 157: self.best_graph = report_queue.get(), which blocks while the *)
(* queue is empty.                                                         *)
RunGet ==
    /\ pc = "get"
    /\ report_queue # <<>>
    /\ best_graph' = Head(report_queue).graph
    /\ returned' = Head(report_queue)
    /\ report_queue' = Tail(report_queue)
    /\ pc' = "terminate"
    /\ last' = "get"
    /\ UNCHANGED <<graph, raised, ops, enhancing, modification, runVars,
                   moreVars>>

(* The processes terminated without being popped off the list. *)
RunTerminateKeepingList ==
    /\ pc = "terminate"
    /\ workers' = {IF Contains(processes, w.pid)
                   THEN [w EXCEPT !.signalled = TRUE] ELSE w : w \in workers}
    /\ pc' = "drain"
    /\ last' = "terminate"
    /\ UNCHANGED <<graph, best_graph, raised, returned, ops, enhancing,
                   modification, report_queue, enhancers, processes, in_flight,
                   round, once, moreVars>>

(* Lines 160-164: every process of the list is popped and terminated. *)
RunTerminate ==
    /\ pc = "terminate"
    /\ workers' = {IF Contains(processes, w.pid)
                   THEN [w EXCEPT !.signalled = TRUE] ELSE w : w \in workers}
    /\ processes' = <<>>
    /\ pc' = "drain"
    /\ last' = "terminate"
    /\ UNCHANGED <<graph, best_graph, raised, returned, ops, enhancing,
                   modification, report_queue, enhancers, in_flight, round,
                   once, moreVars>>

(* The draining loop with the test of args.once left out.  *)
RunDrainIgnoringOnce ==
    /\ pc = "drain"
    /\ IF report_queue # <<>>
       THEN /\ report_queue' = Tail(report_queue)
            /\ pc' = "drain"
       ELSE /\ pc' = "create"
            /\ UNCHANGED report_queue
    /\ last' = "drain"
    /\ UNCHANGED <<graph, best_graph, raised, returned, ops, enhancing,
                   modification, runVars, moreVars>>

(* Lines 166-171: one test of report_queue.empty(): a graph is got and    *)
(* dropped, or the loop ends and the round with it.                       *)
RunDrain ==
    /\ pc = "drain"
    /\ IF report_queue # <<>>
       THEN /\ report_queue' = Tail(report_queue)
            /\ pc' = "drain"
       ELSE /\ pc' = IF once THEN "done" ELSE "create"
            /\ UNCHANGED report_queue
    /\ last' = "drain"
    /\ UNCHANGED <<graph, best_graph, raised, returned, ops, enhancing,
                   modification, runVars, moreVars>>

(* A worker finds a better graph and sends the put; enhance() returns and *)
(* the process ends.  SIGTERM may be sent already and not yet delivered.  *)
WorkerPut ==
    /\ \E w \in workers : \E g \in Enhanced(w.best) :
          /\ Cardinality(in_flight) + Len(report_queue) < MaxQueue
          /\ in_flight' = in_flight \cup {[graph |-> g, by |-> w.pid]}
          /\ workers' = workers \ {w}
    /\ UNCHANGED <<graph, best_graph, raised, last, returned, ops, enhanceVars,
                   enhancers, processes, round, once, moreVars>>

(* SIGTERM is delivered: the process ends without a put. *)
WorkerTerminated ==
    /\ \E w \in workers :
          /\ w.signalled
          /\ workers' = workers \ {w}
    /\ UNCHANGED <<graph, best_graph, raised, last, returned, ops, enhanceVars,
                   enhancers, processes, in_flight, round, once,
                   moreVars>>

(* The Manager serves a put: the graph joins the queue. *)
ManagerPut ==
    /\ \E m \in in_flight :
          /\ report_queue' = Put(report_queue, m.graph, m.by)
          /\ in_flight' = in_flight \ {m}
    /\ UNCHANGED <<graph, best_graph, raised, last, returned, ops, enhancing,
                   pc, modification, enhancers, processes, workers, round,
                   once, moreVars>>

NextRun ==
    \/ RunStart \/ RunGet \/ RunTerminate \/ RunDrain
    \/ WorkerPut \/ WorkerTerminated \/ ManagerPut

(* Cli.run(), cli.py:102-129: the enhancers registered are instantiated,  *)
(* the initial graph is analyzed and _run() is entered.                   *)
InitRun ==
    /\ \E n \in 1 .. MaxEnhancers : enhancers \in [1 .. n -> Registered]
    /\ \E order \in {MaxOrder, TournamentOrder} :
          best_graph \in TournamentGraphs(order, TournamentDegree)
    /\ once \in BOOLEAN
    /\ graph = NoGraph
    /\ processes = <<>> /\ workers = {} /\ in_flight = {} /\ round = 0
    /\ report_queue = <<>>
    /\ data = <<>> /\ copy = <<>> /\ called = <<>>
    /\ vertices_left = <<>> /\ rounds_begun = 0
    /\ edges_file = <<>>
    /\ pc = "create"
    /\ enhancing = "None" /\ modification = 0
    /\ raised = "None"
    /\ last = "analyze"
    /\ returned = <<>>
    /\ ops = 0

SpecRun == InitRun /\ [][NextRun]_vars

(* The order of the graphs: lower diameter first, then lower sum of       *)
(* lengths.                                                                *)
Better(a, b) ==
    \/ a.diameter < b.diameter
    \/ a.diameter = b.diameter /\ a.aspl < b.aspl

C3_EnhancePutsOneBetterGraph ==
    /\ Len(report_queue) <= 1
    /\ \A i \in 1 .. Len(report_queue) :
          LET put == report_queue[i].graph
          IN  /\ put.diameter # None /\ put.aspl # None
              /\ ~put.dirty
              /\ Better(put, best_graph)

(* enhance has put a modified graph and returned. *)
C3_Witness ==
    /\ pc = "returned" /\ Len(report_queue) = 1
    /\ edges(report_queue[1].graph) # edges(best_graph)

(* What C4 says stays the same of best_graph. *)
Observed(g) == <<edges(g), g.diameter, g.aspl, g.dirty, g.vdirty>>

(* C4: no step of enhance changes the edge set, the diameter, the aspl,   *)
(* the dirty flag or the vertex dirty flags of best_graph.                *)
C4_EnhanceLeavesBestGraphAlone ==
    [][Observed(best_graph') = Observed(best_graph)]_vars

(* The duplicate has been modified, made dirty and analyzed again, and    *)
(* its edges differ from those of best_graph.                             *)
C4_Witness ==
    /\ pc = "for" /\ modification > 0
    /\ edges(graph) # edges(best_graph)
    /\ graph.diameter # best_graph.diameter


(***************************************************************************)
(* HopsCache, hops_cache.py.  _data[a][b - a - 1] holds the hops from the  *)
(* vertex with id a to the vertex with the higher id b, or None.  Here     *)
(* data[a + 1][b - a] holds it; a vertex is the pair <<graph, id>>, and a  *)
(* value is None (NoHops) or a tuple of vertices (Hops).                   *)
(***************************************************************************)

MaxCacheOrder == 3
MaxHops == 2
MaxCacheOps == 3

NoHops == [none |-> TRUE, hops |-> <<>>]

HopsTuple(the_hops) == [none |-> FALSE, hops |-> the_hops]

(* HopsCache.__init__(order) *)
HopsCache(order) ==
    [a \in 1 .. (order - 1) |-> [i \in 1 .. (order - a) |-> NoHops]]

(* Vertex.__eq__ (graph_elements.py:71-75): the answer, or the exception  *)
(* raised for two vertex objects with the same id.                        *)
VertexEq(vertex_a, vertex_b) ==
    IF (vertex_a[2] = vertex_b[2]) # (vertex_a = vertex_b)
    THEN Outcome(<<>>, "AssertionError", FALSE)
    ELSE Outcome(<<>>, "None", vertex_a[2] = vertex_b[2])

(* The slot of the pair, vertex_a being the one with the lower id. *)
Slot(d, vertex_a, vertex_b) == d[vertex_a[2] + 1][vertex_b[2] - vertex_a[2]]

SetSlot(d, vertex_a, vertex_b, value) ==
    [d EXCEPT ![vertex_a[2] + 1][vertex_b[2] - vertex_a[2]] = value]

(* HopsCache.get *)
get(d, vertex_a, vertex_b) ==
    IF VertexEq(vertex_a, vertex_b).raised # "None" \/ VertexEq(vertex_a, vertex_b).ret
    THEN Outcome(d, "AssertionError", NoHops)
    ELSE IF vertex_a[2] < vertex_b[2]
    THEN Outcome(d, "None", Slot(d, vertex_a, vertex_b))
    ELSE IF Slot(d, vertex_b, vertex_a).none
    THEN Outcome(d, "None", NoHops)
    ELSE Outcome(d, "None", HopsTuple(Reverse(Slot(d, vertex_b, vertex_a).hops)))

(* set() storing the hops as given, whatever the order of the vertices. *)
set_without_reversing(d, vertex_a, vertex_b, the_hops) ==
    IF VertexEq(vertex_a, vertex_b).raised # "None" \/ VertexEq(vertex_a, vertex_b).ret
    THEN Outcome(d, "AssertionError", NoHops)
    ELSE IF vertex_a[2] < vertex_b[2]
    THEN IF ~Slot(d, vertex_a, vertex_b).none
         THEN Outcome(d, "AssertionError", NoHops)
         ELSE Outcome(SetSlot(d, vertex_a, vertex_b, the_hops), "None", NoHops)
    ELSE IF ~Slot(d, vertex_b, vertex_a).none
         THEN Outcome(d, "AssertionError", NoHops)
         ELSE Outcome(SetSlot(d, vertex_b, vertex_a, the_hops), "None", NoHops)

(* set() without the assertions that the entry is absent. *)
set_overwriting(d, vertex_a, vertex_b, the_hops) ==
    IF VertexEq(vertex_a, vertex_b).raised # "None" \/ VertexEq(vertex_a, vertex_b).ret
    THEN Outcome(d, "AssertionError", NoHops)
    ELSE IF vertex_a[2] < vertex_b[2]
    THEN Outcome(SetSlot(d, vertex_a, vertex_b, the_hops), "None", NoHops)
    ELSE Outcome(SetSlot(d, vertex_b, vertex_a, HopsTuple(Reverse(the_hops.hops))),
                 "None", NoHops)

(* HopsCache.set *)
set(d, vertex_a, vertex_b, the_hops) ==
    IF VertexEq(vertex_a, vertex_b).raised # "None" \/ VertexEq(vertex_a, vertex_b).ret
    THEN Outcome(d, "AssertionError", NoHops)
    ELSE IF vertex_a[2] < vertex_b[2]
    THEN IF ~Slot(d, vertex_a, vertex_b).none
         THEN Outcome(d, "AssertionError", NoHops)
         ELSE Outcome(SetSlot(d, vertex_a, vertex_b, the_hops), "None", NoHops)
    ELSE IF ~Slot(d, vertex_b, vertex_a).none
         THEN Outcome(d, "AssertionError", NoHops)
         ELSE Outcome(SetSlot(d, vertex_b, vertex_a, HopsTuple(Reverse(the_hops.hops))),
                      "None", NoHops)

(* HopsCache.unset *)
unset(d, vertex_a, vertex_b) ==
    IF VertexEq(vertex_a, vertex_b).raised # "None" \/ VertexEq(vertex_a, vertex_b).ret
    THEN Outcome(d, "AssertionError", NoHops)
    ELSE LET lower == IF vertex_b[2] < vertex_a[2] THEN vertex_b ELSE vertex_a
             higher == IF vertex_b[2] < vertex_a[2] THEN vertex_a ELSE vertex_b
         IN  IF Slot(d, lower, higher).none
             THEN Outcome(d, "AssertionError", NoHops)
             ELSE Outcome(SetSlot(d, lower, higher, NoHops), "None", NoHops)

(* HopsCache.clear *)
clear(d) ==
    Outcome([a \in 1 .. Len(d) |-> [i \in 1 .. Len(d[a]) |-> NoHops]],
            "None", NoHops)

(* HopsCache.ids: iterating over an entry that is None raises TypeError. *)
ids(d) ==
    IF \E a \in 1 .. Len(d) : \E i \in 1 .. Len(d[a]) : d[a][i].none
    THEN Outcome(d, "TypeError", <<>>)
    ELSE Outcome(d, "None",
                 [a \in 1 .. Len(d) |->
                    [i \in 1 .. Len(d[a]) |->
                       [k \in 1 .. Len(d[a][i].hops) |-> d[a][i].hops[k][2]]]])

(* HopsCache.set_from_ids(ids, vertices) *)
set_from_ids(d, id_tuples, vertices) ==
    IF Len(id_tuples) + 1 # Len(vertices)
    THEN Outcome(d, "AssertionError", NoHops)
    ELSE Outcome([a \in 1 .. Len(d) |->
                    [i \in 1 .. Len(d[a]) |->
                       IF a <= Len(id_tuples) /\ i <= Len(id_tuples[a])
                       THEN HopsTuple([k \in 1 .. Len(id_tuples[a][i]) |->
                                    vertices[id_tuples[a][i][k] + 1]])
                       ELSE d[a][i]]],
                 "None", NoHops)

(* ================= the HopsCache alone: SpecCache ====================== *)

(* The vertex objects of the graph with the given identity, by id. *)
VertexList(gid, order) == [i \in 1 .. order |-> <<gid, i - 1>>]

(* The tuples of at most MaxHops vertices. *)
HopsValues(vertices) ==
    UNION {[1 .. n -> vertices] : n \in 0 .. MaxHops}

CacheOrder == Len(data) + 1

CacheVertices == SeqToSet(VertexList(0, CacheOrder))

ApplyCache(name, args, out) ==
    /\ data' = out.g
    /\ raised' = out.raised
    /\ returned' = out.ret
    /\ last' = name
    /\ called' = args
    /\ ops' = ops + 1
    /\ UNCHANGED <<graph, best_graph, enhanceVars, runVars, roundVars, edges_file>>

CacheGet ==
    /\ \E a \in CacheVertices, b \in CacheVertices :
          ApplyCache("get", <<a, b>>, get(data, a, b))
    /\ UNCHANGED copy

CacheSet ==
    /\ \E a \in CacheVertices, b \in CacheVertices :
          \E h \in HopsValues(CacheVertices) :
             ApplyCache("set", <<a, b, h>>, set(data, a, b, HopsTuple(h)))
    /\ UNCHANGED copy

CacheUnset ==
    /\ \E a \in CacheVertices, b \in CacheVertices :
          ApplyCache("unset", <<a, b>>, unset(data, a, b))
    /\ UNCHANGED copy

CacheClear ==
    /\ ApplyCache("clear", <<>>, clear(data))
    /\ UNCHANGED copy

CacheIds ==
    /\ ApplyCache("ids", <<>>, ids(data))
    /\ UNCHANGED copy

(* The exported ids are imported into an empty cache over fresh vertices. *)
CacheSetFromIds ==
    /\ last = "ids" /\ raised = "None"
    /\ LET out == set_from_ids(HopsCache(CacheOrder), returned,
                               VertexList(1, CacheOrder))
       IN  /\ copy' = out.g
           /\ raised' = out.raised
           /\ returned' = out.ret
    /\ last' = "set_from_ids"
    /\ called' = <<>>
    /\ ops' = ops + 1
    /\ UNCHANGED <<data, graph, best_graph, enhanceVars, runVars, roundVars, edges_file>>

NextCache ==
    \/ (ops < MaxCacheOps /\ CacheGet)
    \/ (ops < MaxCacheOps /\ CacheSet)
    \/ (ops < MaxCacheOps /\ CacheUnset)
    \/ (ops < MaxCacheOps /\ CacheClear)
    \/ (ops < MaxCacheOps /\ CacheIds)
    \/ (ops < MaxCacheOps /\ CacheSetFromIds)

InitCache ==
    /\ \E order \in 2 .. MaxCacheOrder : data = HopsCache(order)
    /\ copy = <<>> /\ called = <<>>
    /\ graph = NoGraph /\ best_graph = NoGraph
    /\ raised = "None" /\ last = "__init__" /\ returned = NoHops /\ ops = 0
    /\ NoEnhance /\ NoTournament /\ NoRounds /\ NoFile

SpecCache == InitCache /\ [][NextCache]_vars

(* The pairs of distinct vertices of the cache. *)
CachePairs == {p \in CacheVertices \X CacheVertices : p[1] # p[2]}

(* A cached value with every vertex replaced by its id. *)
IdWise(value) ==
    [none |-> value.none,
     hops |-> [k \in 1 .. Len(value.hops) |-> value.hops[k][2]]]

(* C16: the cache is keyed by the unordered pair.  After a successful      *)
(* set(a, b, h), get(a, b) returns h and get(b, a) returns h reversed,     *)
(* whichever of a and b has the lower id; a new cache and a pair that was  *)
(* just unset return None in both directions; and in every state get(b, a) *)
(* is None exactly when get(a, b) is, and the reverse of it otherwise.     *)
C16_KeyedByUnorderedPair ==
    /\ (last = "set" /\ raised = "None") =>
          /\ get(data, called[1], called[2]).ret = HopsTuple(called[3])
          /\ get(data, called[2], called[1]).ret = HopsTuple(Reverse(called[3]))
    /\ (last = "unset" /\ raised = "None") =>
          /\ get(data, called[1], called[2]).ret = NoHops
          /\ get(data, called[2], called[1]).ret = NoHops
    /\ last = "__init__" =>
          \A p \in CachePairs : get(data, p[1], p[2]).ret = NoHops
    /\ \A p \in CachePairs :
          /\ get(data, p[1], p[2]).raised = "None"
          /\ get(data, p[2], p[1]).ret.none = get(data, p[1], p[2]).ret.none
          /\ get(data, p[2], p[1]).ret.hops
                = Reverse(get(data, p[1], p[2]).ret.hops)

(* A set with the higher vertex first stored hops that read differently    *)
(* backwards.                                                              *)
C16_Witness ==
    /\ last = "set" /\ raised = "None"
    /\ called[1][2] > called[2][2]
    /\ Len(called[3]) = 2 /\ called[3][1] # called[3][2]

(* C17: set(a, b, hops) on a pair that holds an entry, in either argument  *)
(* order, raises AssertionError and leaves the whole cache as it was;      *)
(* an entry disappears only through unset or clear, after unset(a, b) the  *)
(* pair can be set again, and after clear every pair reads None and can    *)
(* be set again.                                                           *)
C17_NoOverwrite ==
    [][/\ (last' = "set" /\ called'[1] # called'[2]
              /\ ~get(data, called'[1], called'[2]).ret.none) =>
             (raised' = "AssertionError" /\ data' = data)
       /\ (\E p \in CachePairs : /\ ~get(data, p[1], p[2]).ret.none
                                 /\ get(data', p[1], p[2]).ret.none) =>
             (last' \in {"unset", "clear"} /\ raised' = "None")
       /\ (last' = "unset" /\ raised' = "None") =>
             \A h \in HopsValues(CacheVertices) :
                /\ set(data', called'[1], called'[2], HopsTuple(h)).raised = "None"
                /\ set(data', called'[2], called'[1], HopsTuple(h)).raised = "None"
       /\ last' = "clear" =>
             \A p \in CachePairs :
                /\ get(data', p[1], p[2]).ret = NoHops
                /\ \A h \in HopsValues(CacheVertices) :
                      set(data', p[1], p[2], HopsTuple(h)).raised = "None"
      ]_vars

(* set was refused for a pair that holds an entry stored under the other   *)
(* argument order.                                                         *)
C17_Witness ==
    /\ last = "set" /\ raised = "AssertionError"
    /\ called[1][2] > called[2][2]
    /\ ~get(data, called[1], called[2]).ret.none
    /\ get(data, called[1], called[2]).ret # HopsTuple(called[3])

C20_AddEdgeAssertions ==
    \A u \in Vertices(graph), v \in Vertices(graph) :
       LET out == add_edge_unsafe(graph, u, v)
       IN  /\ u = v => out.raised = "AssertionError"
           /\ (u # v /\ (Len(graph.edges_to[u]) = graph.degree
                           \/ Len(graph.edges_to[v]) = graph.degree)) =>
                 out.raised = "AssertionError"
           /\ (u # v /\ Len(graph.edges_to[u]) < graph.degree
                     /\ Len(graph.edges_to[v]) < graph.degree) =>
                 /\ out.raised = "None"
                 /\ out.g.edges_to[u] = Append(graph.edges_to[u], v)
                 /\ out.g.edges_to[v] = Append(graph.edges_to[v], u)
                 /\ out.g.dirty

(* An edge was refused at a vertex that had degree neighbours. *)
C20_Witness ==
    /\ last = "add_edge_unsafe" /\ raised = "AssertionError"
    /\ \E v \in Vertices(graph) : Len(graph.edges_to[v]) > graph.degree

(* ============ duplicates and pickled graphs: SpecDuplicate ============= *)
MaxDuplicateOps == 3

(* The graph is put on the report queue and got from it: the receiver's   *)
(* graph is a new object, unpickled from the pickle of the graph sent,     *)
(* which best_graph keeps for comparison.                                  *)
Receive ==
    /\ Running
    /\ graph.gid < 2
    /\ \E out \in loads_dumps(graph, 2, Dirty) :
          /\ graph' = out.g
          /\ raised' = out.raised
          /\ returned' = out.ret
    /\ best_graph' = graph
    /\ last' = "loads_dumps"
    /\ ops' = ops + 1
    /\ UNCHANGED <<enhanceVars, runVars, moreVars>>

NextDuplicate ==
    \/ (ops < MaxDuplicateOps /\ AddEdge)
    \/ (ops < MaxDuplicateOps /\ RemoveEdge)
    \/ (ops <= MaxDuplicateOps /\ Analyze)
    \/ (ops < MaxDuplicateOps /\ Duplicate)
    \/ (ops < MaxDuplicateOps /\ Receive)

InitDuplicate == InitLoaded(MaxOrder, MaxOrder * MaxDegree)

SpecDuplicate == InitDuplicate /\ [][NextDuplicate]_vars

(* The Vertex objects the caches of g refer to, as targets and as hops. *)
CacheRefs(g) ==
    UNION {UNION {{g.hops_cache[v][i].target} \cup SeqToSet(g.hops_cache[v][i].hops) :
                     i \in 1 .. Len(g.hops_cache[v])} :
              v \in Vertices(g)}

(* g is clean and carries the result of an analysis. *)
IsAnalyzed(g) == ~g.dirty /\ g.diameter # None /\ g.aspl # None

(* What g finds in its cache for its vertices a < b, with every hop        *)
(* replaced by its id; none when the cache has no entry for the pair.      *)
EntryById(g, a, b) ==
    LET i == CacheIndex(g.hops_cache[a], Ref(g, b))
    IN  IF i = 0 THEN [none |-> TRUE, hops |-> <<>>]
        ELSE [none |-> FALSE,
              hops |-> [j \in 1 .. Len(g.hops_cache[a][i].hops) |->
                          g.hops_cache[a][i].hops[j][2]]]

(* C12: right after duplicate() every vertex the caches of the duplicate   *)
(* refer to, as target or as hop, is a Vertex object of the duplicate.     *)
C12_DuplicateCacheIsRekeyed ==
    (last = "duplicate" /\ raised = "None") =>
       \A ref \in CacheRefs(graph) : ref[1] = graph.gid

(* C13: the duplicate is another object with the edges (by vertex id), the *)
(* diameter and the aspl of the graph duplicated; analysing the duplicate  *)
(* of an analyzed graph succeeds and gives the same diameter and aspl; and *)
(* adding or removing an edge in the duplicate leaves the adjacency of the *)
(* graph duplicated as it was.                                             *)
C13_DuplicateIsEquivalentAndIndependent ==
    [][/\ (last' = "duplicate" /\ raised' = "None") =>
             /\ ~SameObject(graph', best_graph')
             /\ edges(graph') = edges(best_graph')
             /\ graph'.diameter = best_graph'.diameter
             /\ graph'.aspl = best_graph'.aspl
       /\ (last = "duplicate" /\ raised = "None" /\ IsAnalyzed(best_graph)
              /\ last' = "analyze") =>
             /\ raised' = "None"
             /\ graph'.diameter = best_graph.diameter
             /\ graph'.aspl = best_graph.aspl
       /\ (graph.gid = 1 /\ last' \in {"add_edge_unsafe", "remove_edge_unsafe"}) =>
             best_graph'.edges_to = best_graph.edges_to
      ]_vars

(* C14: the graph received for an analyzed graph sent is another object    *)
(* with the same order, degree, diameter, aspl and edges by vertex id; for *)
(* every pair of vertices it finds in its cache what the graph sent finds  *)
(* in its own, id-wise, and its caches refer to its own vertices only;     *)
(* and analysing the received graph succeeds with the same diameter and    *)
(* aspl.                                                                   *)
C14_PickleRoundTrip ==
    [][/\ (last' = "loads_dumps" /\ IsAnalyzed(best_graph')) =>
             /\ raised' = "None"
             /\ ~SameObject(graph', best_graph')
             /\ graph'.order = best_graph'.order
             /\ graph'.degree = best_graph'.degree
             /\ graph'.diameter = best_graph'.diameter
             /\ graph'.aspl = best_graph'.aspl
             /\ edges(graph') = edges(best_graph')
             /\ \A p \in Pairs(graph') :
                   EntryById(graph', p[1], p[2]) = EntryById(best_graph', p[1], p[2])
             /\ \A ref \in CacheRefs(graph') : ref[1] = graph'.gid
       /\ (last = "loads_dumps" /\ raised = "None" /\ IsAnalyzed(best_graph)
              /\ last' = "analyze") =>
             /\ raised' = "None"
             /\ graph'.diameter = best_graph.diameter
             /\ graph'.aspl = best_graph.aspl
      ]_vars

(* ================= the edges file: SpecFile ============================ *)
MaxFileOps == 2

(* A file is a sequence of lines and a line a sequence of characters. *)
Digits == <<"0", "1", "2", "3", "4", "5", "6", "7", "8", "9">>

(* "%i" % n for n >= 0 *)
RECURSIVE FormatInt(_)
FormatInt(n) ==
    IF n < 10 THEN <<Digits[n + 1]>>
    ELSE Append(FormatInt(n \div 10), Digits[(n % 10) + 1])

(* "%i %i\n" % (v1.id, v2.id) *)
FormatLine(edge) ==
    FormatInt(edge[1]) \o <<" ">> \o FormatInt(edge[2]) \o <<"\n">>

Whitespace == {" ", "\n"}

(* str.strip() *)
RECURSIVE strip(_)
strip(chars) ==
    IF chars = <<>> THEN chars
    ELSE IF Head(chars) \in Whitespace THEN strip(Tail(chars))
    ELSE IF chars[Len(chars)] \in Whitespace
    THEN strip(SubSeq(chars, 1, Len(chars) - 1))
    ELSE chars

(* str.split(" "): the fields between the single spaces. *)
RECURSIVE split(_, _, _)
split(chars, i, field) ==
    IF i > Len(chars) THEN <<field>>
    ELSE IF chars[i] = " " THEN <<field>> \o split(chars, i + 1, <<>>)
    ELSE split(chars, i + 1, Append(field, chars[i]))

(* int(field) for a field of decimal digits; None when int() raises      *)
(* ValueError.                                                            *)
RECURSIVE ParseInt(_)
ParseInt(field) ==
    IF field = <<>> \/ \E i \in 1 .. Len(field) : field[i] \notin SeqToSet(Digits)
    THEN None
    ELSE LET last_digit == (CHOOSE d \in 1 .. 10 : Digits[d] = field[Len(field)]) - 1
         IN  IF Len(field) = 1 THEN last_digit
             ELSE 10 * ParseInt(SubSeq(field, 1, Len(field) - 1)) + last_digit

(* Cli.write_edges(): the files it can write, the set of edges being       *)
(* iterated in any order.                                                  *)
write_edges(g) ==
    IF g.diameter = None \/ g.aspl = None
    THEN {Outcome(g, "AssertionError", <<>>)}
    ELSE {Outcome(g, "None", [i \in 1 .. Len(es) |-> FormatLine(es[i])]) :
             es \in Perms(edges(g))}

(* Cli.load_edges() reading the lines of a file into the graph. *)
RECURSIVE load_edges_from(_, _, _)
load_edges_from(g, file, i) ==
    IF i > Len(file) THEN Outcome(g, "None", <<>>)
    ELSE LET fields == split(strip(file[i]), 1, <<>>)
         IN  IF Len(fields) # 2
                \/ ParseInt(fields[1]) = None \/ ParseInt(fields[2]) = None
             THEN Outcome(g, "ValueError", <<>>)
             ELSE IF ParseInt(fields[1]) >= g.order \/ ParseInt(fields[2]) >= g.order
             THEN Outcome(g, "IndexError", <<>>)
             ELSE LET added == add_edge_unsafe(g, ParseInt(fields[1]),
                                               ParseInt(fields[2]))
                  IN  IF added.raised # "None" THEN added
                      ELSE load_edges_from(added.g, file, i + 1)

(* write_edges() of the graph, the best graph. *)
WriteEdges ==
    /\ Running
    /\ graph.gid = 0 /\ edges_file = <<>>
    /\ \E out \in write_edges(graph) :
          /\ raised' = out.raised
          /\ edges_file' = out.ret
    /\ last' = "write_edges"
    /\ UNCHANGED <<graph, best_graph, returned, ops, enhanceVars, runVars,
                   cacheVars, roundVars>>

(* A new graph of the same order and degree loads the file; best_graph    *)
(* keeps the graph written.                                                *)
LoadEdges ==
    /\ Running
    /\ graph.gid = 0 /\ last = "write_edges"
    /\ LET out == load_edges_from(GolfGraph(1, graph.order, graph.degree),
                                  edges_file, 1)
       IN  /\ graph' = out.g
           /\ raised' = out.raised
    /\ best_graph' = graph
    /\ last' = "load_edges"
    /\ UNCHANGED <<returned, ops, enhanceVars, runVars, cacheVars, roundVars,
                   edges_file>>

NextFile ==
    \/ (ops < MaxFileOps /\ edges_file = <<>> /\ AddEdge)
    \/ (ops < MaxFileOps /\ edges_file = <<>> /\ RemoveEdge)
    \/ (ops <= MaxFileOps /\ Analyze)
    \/ (ops <= MaxFileOps /\ WriteEdges)
    \/ (ops <= MaxFileOps /\ LoadEdges)

InitFile == InitLoaded(MaxOrder, MaxOrder * MaxDegree)

SpecFile == InitFile /\ [][NextFile]_vars

(* C15: the graph that loaded the file write_edges wrote for the best      *)
(* graph, a clean and analyzed one, has the edges of the best graph, by    *)
(* vertex id, and its analysis succeeds with the diameter and the aspl the *)
(* best graph has.                                                         *)
C15_EdgesFileRoundTrip ==
    [][/\ (last = "write_edges" /\ IsAnalyzed(graph) /\ last' = "load_edges") =>
             /\ raised' = "None"
             /\ edges(graph') = edges(best_graph')
       /\ (last = "load_edges" /\ best_graph.gid = 0 /\ IsAnalyzed(best_graph)
              /\ last' = "analyze") =>
             /\ raised' = "None"
             /\ graph'.diameter = best_graph.diameter
             /\ graph'.aspl = best_graph.aspl
      ]_vars

(* =================== comparing graphs: SpecCompare ===================== *)
CompareOrder == 6
CompareDegree == 3
MaxRemovedLines == 2

(* The lines the edge files of the graphs compared are taken from. *)
CompareLines ==
    <<<<0, 3>>, <<0, 4>>, <<0, 5>>, <<1, 2>>, <<1, 3>>, <<1, 4>>, <<1, 5>>,
      <<2, 3>>, <<2, 4>>>>

(* The files that lack at most MaxRemovedLines of these lines and give no  *)
(* vertex more neighbours than the degree.                                 *)
CompareFiles ==
    LET ok(S) == /\ Cardinality(S) >= Len(CompareLines) - MaxRemovedLines
                 /\ \A v \in 0 .. (CompareOrder - 1) :
                       Cardinality({i \in S : v \in {CompareLines[i][1],
                                                     CompareLines[i][2]}})
                          <= CompareDegree
        sorted(S) == [k \in 1 .. Cardinality(S) |->
                        CompareLines[CHOOSE i \in S :
                                        Cardinality({j \in S : j < i}) = k - 1]]
    IN  {sorted(S) : S \in {T \in SUBSET (1 .. Len(CompareLines)) : ok(T)}}

(* best_graph.analyze() *)
AnalyzeOther ==
    /\ Running
    /\ LET out == analyze(best_graph, Dirty)
       IN  /\ best_graph' = out.g
           /\ raised' = out.raised
           /\ returned' = out.ret
    /\ last' = "analyze"
    /\ UNCHANGED <<graph, ops, enhanceVars, runVars, moreVars>>

(* graph < best_graph *)
LessThan ==
    /\ Running
    /\ raised' = Lt(graph, best_graph).raised
    /\ returned' = Lt(graph, best_graph).ret
    /\ last' = "__lt__"
    /\ UNCHANGED <<graph, best_graph, ops, enhanceVars, runVars, moreVars>>

NextCompare ==
    \/ (graph.dirty /\ Analyze)
    \/ (best_graph.dirty /\ AnalyzeOther)
    \/ LessThan

InitCompare ==
    /\ \E lines \in CompareFiles :
          graph = load_edges(GolfGraph(0, CompareOrder, CompareDegree), lines).g
    /\ \E lines \in CompareFiles :
          best_graph = load_edges(GolfGraph(1, CompareOrder, CompareDegree), lines).g
    /\ raised = "None"
    /\ last = "load_edges"
    /\ returned = FALSE
    /\ ops = 0
    /\ NoEnhance /\ NoRun

SpecCompare == InitCompare /\ [][NextCompare]_vars

(* The k-th smallest of the distances of the pairs of vertices of g. *)
KthDistance(g, k) ==
    CHOOSE d \in 1 .. (g.order - 1) :
       /\ Cardinality({p \in Pairs(g) : Distance(g, p[1], p[2]) <= d}) >= k
       /\ Cardinality({p \in Pairs(g) : Distance(g, p[1], p[2]) < d}) < k

(* Twice the median of the shortest path lengths of g, a connected graph. *)
TwiceMspl(g) ==
    LET n == Cardinality(Pairs(g))
    IN  IF n % 2 = 1 THEN 2 * KthDistance(g, (n + 1) \div 2)
        ELSE KthDistance(g, n \div 2) + KthDistance(g, (n \div 2) + 1)

(* (diameter, aspl, mspl) of a is lexicographically smaller than that of b *)
LexLess(a, b) ==
    \/ a.diameter < b.diameter
    \/ a.diameter = b.diameter /\ a.aspl < b.aspl
    \/ a.diameter = b.diameter /\ a.aspl = b.aspl /\ TwiceMspl(a) < TwiceMspl(b)

(* C19: for two clean, analyzed graphs of equal order and degree the       *)
(* comparison succeeds, a < b holds exactly when (diameter, aspl, mspl) of *)
(* a is lexicographically smaller than that of b, mspl being the median of *)
(* the shortest path lengths, and a < b and b < a never hold together.     *)
C19_LessThanIsLexicographic ==
    (last = "__lt__" /\ IsAnalyzed(graph) /\ IsAnalyzed(best_graph)) =>
       /\ raised = "None"
       /\ returned = LexLess(graph, best_graph)
       /\ ~(Lt(graph, best_graph).ret /\ Lt(best_graph, graph).ret)

(* ======= the random completion, round by round: SpecRounds ============= *)
MaxFullOrder == 5
MaxFirstShuffled == 2

(* shuffle(current_vertices) of a round.  In the first round, on the       *)
(* graph without edges, only the first MaxFirstShuffled vertices change    *)
(* places: the other outcomes differ from these by the names of the        *)
(* vertices only.                                                          *)
RoundShuffles(list, first_round) ==
    IF first_round
    THEN {current_vertices \in Shuffles(list) :
             \A i \in (MaxFirstShuffled + 1) .. Len(list) :
                current_vertices[i] = list[i]}
    ELSE Shuffles(list)

(* add_as_many_random_edges_as_possible(), lines 349-406: one pass of the  *)
(* loop over range(degree).                                                *)
Round ==
    /\ Running
    /\ last \in {"__init__", "round"}
    /\ rounds_begun < graph.degree
    /\ Len(vertices_left) >= 2
    /\ \E current_vertices \in RoundShuffles(vertices_left, rounds_begun = 0) :
          LET r == PairOff(graph, current_vertices, vertices_left)
          IN  /\ graph' = r.g
              /\ vertices_left' = r.overall
              /\ raised' = r.raised
    /\ rounds_begun' = rounds_begun + 1
    /\ last' = "round"
    /\ UNCHANGED <<best_graph, returned, ops, enhanceVars, runVars, cacheVars,
                   edges_file>>

(* Lines 349-352: the loop is over, or left with fewer than two vertices. *)
RoundsOver ==
    /\ Running
    /\ last \in {"__init__", "round"}
    /\ rounds_begun = graph.degree \/ Len(vertices_left) < 2
    /\ last' = "add_as_many_random_edges_as_possible"
    /\ UNCHANGED <<graph, best_graph, raised, returned, ops, enhanceVars, runVars,
                   moreVars>>

NextRounds ==
    \/ Round
    \/ RoundsOver
    \/ (last = "add_as_many_random_edges_as_possible" /\ Analyze)

(* A new graph with order - 1 = degree, before the first round. *)
InitRounds ==
    /\ \E order \in 3 .. MaxFullOrder :
          /\ graph = GolfGraph(0, order, order - 1)
          /\ vertices_left = [i \in 1 .. order |-> i - 1]
    /\ rounds_begun = 0
    /\ best_graph = NoGraph
    /\ raised = "None"
    /\ last = "__init__"
    /\ returned = <<>>
    /\ ops = 0
    /\ NoEnhance /\ NoTournament /\ NoCache /\ NoFile

SpecRounds == InitRounds /\ [][NextRounds]_vars

(* C11: when order - 1 = degree, the completion of the graph without edges *)
(* returns the complete graph, with fewer than two vertices that have      *)
(* unused ports, whatever the shuffles; and its analysis gives diameter 1  *)
(* and aspl 1.                                                             *)
C11_CompletionGivesCompleteGraph ==
    /\ last = "add_as_many_random_edges_as_possible" =>
          /\ raised = "None"
          /\ \A p \in Pairs(graph) : HasEdge(graph, p[1], p[2])
          /\ Cardinality({v \in Vertices(graph) :
                             Len(graph.edges_to[v]) < graph.degree}) < 2
    /\ (last = "analyze" /\ raised = "None") =>
          /\ graph.diameter = 1
          /\ graph.aspl = Cardinality(Pairs(graph))

(* ==================== an edge added twice: Spec ======================== *)

(* C21: add_edge_unsafe(u, v) for a v that is in the adjacency list of u   *)
(* already raises AssertionError, and while no operation has failed no     *)
(* adjacency list holds a neighbour twice.                                 *)
C21_NoEdgeTwice ==
    /\ \A u \in Vertices(graph), v \in Vertices(graph) :
          Contains(graph.edges_to[u], v) =>
             add_edge_unsafe(graph, u, v).raised = "AssertionError"
    /\ raised = "None" =>
          \A u \in Vertices(graph) :
             Cardinality(SeqToSet(graph.edges_to[u])) = Len(graph.edges_to[u])

(* ============ which enhancers are started: SpecApplicable ============== *)
MaxApplicableOrder == 11
MaxApplicableDegree == 11

(* The analyzed graphs of an order and degree: the complete graph, every   *)
(* pair one hop apart, and the graphs of the tournament.                   *)
ApplicableGraphs(order, degree) ==
    {Analyzed(order, degree, 1, (order * (order - 1)) \div 2)}
       \cup TournamentGraphs(order, degree)

(* enhancer.applicable_to(self.best_graph), cli.py:145 and 181 *)
ApplicableTo ==
    /\ returned' = applicable_to(enhancing, best_graph)
    /\ last' = "applicable_to"
    /\ UNCHANGED <<graph, best_graph, raised, ops, enhanceVars, runVars, moreVars>>

NextApplicable ==
    \/ ApplicableTo
    \/ EnhanceCall

InitApplicable ==
    /\ \E order \in 2 .. MaxApplicableOrder, degree \in 2 .. MaxApplicableDegree :
          best_graph \in ApplicableGraphs(order, degree)
    /\ graph = NoGraph
    /\ enhancing \in Enhancers
    /\ pc = "enhance"
    /\ modification = 0
    /\ report_queue = <<>>
    /\ raised = "None"
    /\ last = "analyze"
    /\ returned = FALSE
    /\ ops = 0
    /\ NoRun

SpecApplicable == InitApplicable /\ [][NextApplicable]_vars

(* C22: for a graph with order - 1 <= degree, the graphs on which          *)
(* enhance() returns at once, applicable_to of a registered enhancer       *)
(* returns False.                                                          *)
C22_NotApplicableToCompleteGraphs ==
    (/\ last = "applicable_to"
     /\ enhancing \in Registered
     /\ best_graph.order - 1 <= best_graph.degree) => returned = FALSE

(* ================= the controller runs on: SpecRunFair ================= *)
(* The controller is one sequential process: a step of it that stays      *)
(* possible is taken, a get() on a queue that holds a graph returns.       *)
(* Nothing is assumed of the workers and of the Manager.                   *)
SpecRunFair ==
    /\ SpecRun
    /\ WF_vars(RunGet)
    /\ WF_vars(RunTerminate)
    /\ WF_vars(RunDrain)

(* C23: with --once, from the moment the controller waits and the queue    *)
(* holds a published graph, the controller eventually has adopted that     *)
(* graph, has terminated every process of the round, has found the queue   *)
(* empty and has left the loop; and it starts at most one round, the loop  *)
(* once left stays left.                                                   *)
C23_OnceEndsAfterFirstPublication ==
    /\ \A order \in {MaxOrder, TournamentOrder} :
          \A g \in TournamentGraphs(order, TournamentDegree) :
             (/\ once
              /\ pc = "get"
              /\ report_queue # <<>>
              /\ Head(report_queue).graph = g)
                ~> (/\ pc = "done"
                    /\ best_graph = g
                    /\ processes = <<>>
                    /\ \A w \in workers : w.signalled
                    /\ report_queue = <<>>
                    /\ round = 1)
    /\ [](once => round <= 1)
    /\ [][pc = "done" => pc' = "done"]_vars

C23_Witness ==
    /\ once
    /\ pc = "done"
    /\ round = 1
    /\ last = "drain"
    /\ report_queue = <<>>
    /\ best_graph = returned.graph

(* ============== the user interrupts the loop: SpecInterrupt ============ *)
(* run() without the analyze() of line 117. *)
initial_graph_not_analyzed(order, degree, lines) ==
    Outcome(load_edges(GolfGraph(0, order, degree), lines).g, "None", <<>>)

(* run(), cli.py:109-117: the graph is constructed, the edges file is     *)
(* loaded and the graph analyzed.                                          *)
initial_graph(order, degree, lines) ==
    analyze(load_edges(GolfGraph(0, order, degree), lines).g,
            DirtyRefs(load_edges(GolfGraph(0, order, degree), lines).g))

(* The graphs run() enters the loop with: at order MaxOrder every graph    *)
(* whose analysis does not raise, at order TournamentOrder the analyses.   *)
InitialGraphsOfRun ==
    {initial_graph(MaxOrder, TournamentDegree, lines).g :
        lines \in {l \in EdgeFiles(GolfGraph(0, MaxOrder, TournamentDegree),
                                   (MaxOrder * TournamentDegree) \div 2) :
                     initial_graph(MaxOrder, TournamentDegree, l).raised = "None"}}
       \cup TournamentGraphs(TournamentOrder, TournamentDegree)

(* cli.py:128-129: KeyboardInterrupt is raised in the controller between   *)
(* two statements of _run() and run() calls write_edges().                 *)
Interrupt ==
    /\ pc \in {"create", "get", "terminate", "drain"}
    /\ \E out \in write_edges(best_graph) :
          /\ raised' = out.raised
          /\ edges_file' = out.ret
    /\ pc' = "interrupted"
    /\ last' = "write_edges"
    /\ UNCHANGED <<graph, best_graph, returned, ops, enhancing, modification,
                   report_queue, runVars, cacheVars, roundVars>>

NextInterrupt ==
    \/ RunStart \/ RunGet \/ RunTerminate \/ RunDrain
    \/ WorkerPut \/ WorkerTerminated \/ ManagerPut
    \/ Interrupt

(* returned holds the graph last assigned to best_graph and the process    *)
(* it came from: at first the graph run() built itself.                    *)
InitInterrupt ==
    /\ \E n \in 1 .. MaxEnhancers : enhancers \in [1 .. n -> Registered]
    /\ best_graph \in InitialGraphsOfRun
    /\ returned = [graph |-> best_graph, by |-> <<0, 0>>]
    /\ once \in BOOLEAN
    /\ graph = NoGraph
    /\ processes = <<>> /\ workers = {} /\ in_flight = {} /\ round = 0
    /\ report_queue = <<>>
    /\ NoCache /\ NoRounds /\ NoFile
    /\ pc = "create"
    /\ enhancing = "None" /\ modification = 0
    /\ raised = "None"
    /\ last = "analyze"
    /\ ops = 0

SpecInterrupt == InitInterrupt /\ [][NextInterrupt]_vars

MaxBoundsOrder == 5
MaxBoundsDegree == 3
MaxBoundsOps == 1

RECURSIVE pow(_, _)
pow(base, exponent) ==
    IF exponent = 0 THEN 1 ELSE base * pow(base, exponent - 1)

(* The loop breaking when tmp > order only. *)
RECURSIVE LowerBoundsLoopBreakingLate(_, _, _, _, _, _)
LowerBoundsLoopBreakingLate(order, degree, diameter, aspl, n, r) ==
    IF n + degree * pow(degree - 1, r - 1) > order
    THEN [diameter |-> diameter + 1,
          aspl |-> aspl + (diameter + 1) * (order - n)]
    ELSE LowerBoundsLoopBreakingLate(order, degree, r,
                         aspl + r * degree * pow(degree - 1, r - 1),
                         n + degree * pow(degree - 1, r - 1), r + 1)

(* The loop of _calculate_lower_bounds(), graph_elements.py:248-256; aspl  *)
(* is the sum before the division by order - 1 of line 259.                *)
RECURSIVE LowerBoundsLoop(_, _, _, _, _, _)
LowerBoundsLoop(order, degree, diameter, aspl, n, r) ==
    IF n + degree * pow(degree - 1, r - 1) >= order
    THEN [diameter |-> diameter + 1,
          aspl |-> aspl + (diameter + 1) * (order - n)]
    ELSE LowerBoundsLoop(order, degree, r,
                         aspl + r * degree * pow(degree - 1, r - 1),
                         n + degree * pow(degree - 1, r - 1), r + 1)

(* _calculate_lower_bounds(): the diameter, and order - 1 times the aspl.  *)
calculate_lower_bounds(order, degree) ==
    IF order < 2 \/ degree < 2
    THEN [diameter |-> None, aspl |-> None]
    ELSE LowerBoundsLoop(order, degree, -1, 0, 1, 1)

(* run(), cli.py:109-117, for every order, degree and edges file, and     *)
(* then the graph modified and analyzed.                                   *)
InitBounds ==
    /\ \E order \in 2 .. MaxBoundsOrder, degree \in 2 .. MaxBoundsDegree :
          \E lines \in EdgeFiles(GolfGraph(0, order, degree),
                                 (order * degree) \div 2) :
             graph = load_edges(GolfGraph(0, order, degree), lines).g
    /\ best_graph = NoGraph
    /\ raised = "None"
    /\ last = "load_edges"
    /\ returned = <<>>
    /\ ops = 0
    /\ NoEnhance /\ NoRun

NextBounds ==
    \/ (ops < MaxBoundsOps /\ AddEdge)
    \/ (ops < MaxBoundsOps /\ RemoveEdge)
    \/ Analyze

SpecBounds == InitBounds /\ [][NextBounds]_vars

C26_HopsReversed ==
    (raised = "None" /\ Connected(graph)) =>
       \A a \in Vertices(graph), b \in Vertices(graph) :
          a # b =>
             /\ hops(graph, a, b, Dirty).raised = "None"
             /\ hops(graph, b, a, Dirty).raised = "None"
             /\ hops(graph, b, a, Dirty).ret = Reverse(hops(graph, a, b, Dirty).ret)

Full(g) == \A v \in Vertices(g) : Len(g.edges_to[v]) = g.degree

(* C28: add_as_many_random_edges_as_possible() on a graph whose vertices   *)
(* all have degree neighbours returns normally and leaves every adjacency  *)
(* list as it was.                                                         *)
C28_CompletionOfFullGraph ==
    [][(last' = "add_as_many_random_edges_as_possible" /\ Full(graph))
          => (raised' = "None" /\ graph'.edges_to = graph.edges_to)]_vars

(* The completion has run on a full graph that was not dirty: had it added *)
(* an edge, the graph would be dirty.                                      *)
C28_Witness ==
    /\ last = "add_as_many_random_edges_as_possible"
    /\ raised = "None"
    /\ Full(graph)
    /\ ~graph.dirty

(* ================== breadcrumbs between calls: Spec ==================== *)
(* C29: between the calls, whether the last one returned or raised         *)
(* GraphPartitionedError, the breadcrumb of every vertex is None.          *)
C29_NoBreadcrumbLeft ==
    Running => \A v \in Vertices(graph) : graph.breadcrumb[v] = None

(* C30: hops(a, b) raises GraphPartitionedError only when no path joins a  *)
(* and b in the edges the graph has now, and what it returns is a shortest *)
(* path, also after an earlier call has failed on this graph.              *)
C30_PartitionErrorOnlyIfUnreachable ==
    Running =>
       \A p \in Pairs(graph) :
          /\ hops(graph, p[1], p[2], Dirty).raised = "GraphPartitionedError"
                => Distance(graph, p[1], p[2]) = None
          /\ (/\ hops(graph, p[1], p[2], Dirty).raised = "None"
              /\ StaleEntries(graph) = {})
                => Len(hops(graph, p[1], p[2], Dirty).ret)
                      = Distance(graph, p[1], p[2]) - 1

(* ===================== what clean() drops: Spec ======================== *)
(* The entry e of the cache of vertex v involves a dirty vertex. *)
InvolvesDirty(g, v, e) ==
    \/ g.vdirty[v]
    \/ e.target \in DirtyRefs(g)
    \/ \E j \in 1 .. Len(e.hops) : e.hops[j] \in DirtyRefs(g)

(* C31: clean() called on the graph as it is drops every cache entry whose *)
(* source, target or one of whose hops is dirty, and keeps every other     *)
(* entry as it is.                                                         *)
C31_CleanDropsDirtyEntries ==
    (Running /\ graph.dirty) =>
       \A v \in Vertices(graph), i \in 1 .. MaxOrder :
          i <= Len(graph.hops_cache[v]) =>
             IF InvolvesDirty(graph, v, graph.hops_cache[v][i])
             THEN CacheIndex(clean(graph, DirtyRefs(graph)).hops_cache[v],
                             graph.hops_cache[v][i].target) = 0
             ELSE Contains(clean(graph, DirtyRefs(graph)).hops_cache[v],
                           graph.hops_cache[v][i])

(* ============ partitioned candidates in enhance: SpecEnhance =========== *)
(* C32: enhance() never ends with GraphPartitionedError, and a graph on    *)
(* the queue is one whose analysis completed: it has its diameter and      *)
(* aspl, and it is connected.                                              *)
C32_PartitionStaysInsideEnhance ==
    /\ raised # "GraphPartitionedError"
    /\ \A i \in 1 .. Len(report_queue) :
          /\ report_queue[i].graph.diameter # None
          /\ report_queue[i].graph.aspl # None
          /\ Connected(report_queue[i].graph)

(* The analysis of a partitioned candidate has failed and the loop goes    *)
(* on: clean() has reset the diameter of the candidate.                    *)
C32_Witness ==
    /\ pc \in {"for", "while"}
    /\ modification > 0
    /\ raised = "None"
    /\ ~Connected(graph)
    /\ graph.diameter = None
    /\ report_queue = <<>>

(* ================= removing a random edge: SpecRandom ================== *)
(* C33: remove_random_edge(graph, v, False) leaves no vertex without an    *)
(* edge that had one, and changes nothing when it returns None; with True  *)
(* it removes one edge of v whenever v has one.                            *)
C33_RemoveRandomEdgeKeepsVerticesLinked ==
    Running =>
       \A v \in Vertices(graph) :
          /\ \A out \in remove_random_edge(graph, v, FALSE) :
                out.raised = "None" =>
                   /\ \A w \in Vertices(graph) :
                         Len(graph.edges_to[w]) > 0 => Len(out.g.edges_to[w]) > 0
                   /\ out.ret = None => out.g.edges_to = graph.edges_to
          /\ \A out \in remove_random_edge(graph, v, TRUE) :
                (out.raised = "None" /\ Len(graph.edges_to[v]) > 0) =>
                   /\ out.ret # None
                   /\ Len(out.g.edges_to[v]) = Len(graph.edges_to[v]) - 1

(* ========== the registered enhancer's modification: SpecReplace ======== *)
MaxMissingLines == 1
MaxReplaceOps == 1

(* The shuffles of a list in which the vertices without a free port come   *)
(* last. A vertex without a free port is dropped where the loop meets it   *)
(* (lines 368-378, 390-394) and changes no edge, so every shuffle adds the *)
(* edges that the shuffle of this set with the same order of the other     *)
(* vertices adds.                                                          *)
OpenShuffles(g, list) ==
    {perm \o SelectSeq(list, LAMBDA v : Len(g.edges_to[v]) = g.degree) :
        perm \in Shuffles(SelectSeq(list, LAMBDA v : Len(g.edges_to[v]) # g.degree))}

(* Lines 349-360, as RandomRounds, over these shuffles. *)
RECURSIVE RandomRoundsOfOpen(_, _, _)
RandomRoundsOfOpen(g, overall_vertices, rounds) ==
    IF rounds = 0 \/ Len(overall_vertices) < 2
    THEN {Outcome(g, "None", <<>>)}
    ELSE UNION {IF r.raised # "None"
                THEN {Outcome(r.g, r.raised, <<>>)}
                ELSE RandomRoundsOfOpen(r.g, r.overall, rounds - 1) :
                r \in {PairOff(g, current_vertices, overall_vertices) :
                          current_vertices \in OpenShuffles(g, overall_vertices)}}

(* AbstractRandomlyRelinkVertices.modify_graph() of the enhancer           *)
(* registered, on a graph of an order it applies to.                       *)
replace_edges(g) ==
    IF ~applicable_to("RandomlyReplaceTenPercentEdges", g)
    THEN {Outcome(g, "AssertionError", <<>>)}
    ELSE UNION {UNION {IF e.raised # "None" THEN {e}
                       ELSE RandomRoundsOfOpen(e.g, [i \in 1 .. g.order |-> i - 1],
                                               g.degree) :
                       e \in EnsureAll(c.g, c.ret, 1)} :
                c \in vertices_to_consider("RandomlyReplaceTenPercentEdges", g, {})}

(* The edges of the Petersen graph, which has order 10, degree 3 and       *)
(* diameter 2.                                                             *)
ReplaceLines ==
    <<<<0, 1>>, <<0, 4>>, <<0, 5>>, <<1, 2>>, <<1, 6>>, <<2, 3>>, <<2, 7>>,
      <<3, 4>>, <<3, 8>>, <<4, 9>>, <<5, 7>>, <<5, 8>>, <<6, 8>>, <<6, 9>>,
      <<7, 9>>>>

(* The files that lack at most MaxMissingLines of these lines. *)
ReplaceFiles ==
    {SelectSeq(ReplaceLines, LAMBDA line : line \notin missing) :
        missing \in {m \in SUBSET SeqToSet(ReplaceLines) :
                        Cardinality(m) <= MaxMissingLines}}

(* current_graph = self.modify_graph(current_graph), enhancers.py:122 *)
ReplaceEdges ==
    /\ Running /\ ops < MaxReplaceOps
    /\ \E out \in replace_edges(graph) : Apply("modify_graph", out)
    /\ ops' = ops + 1

NextReplace == ReplaceEdges

InitReplace ==
    /\ \E lines \in ReplaceFiles :
          graph = load_edges(GolfGraph(0, TournamentOrder, TournamentDegree), lines).g
    /\ best_graph = NoGraph
    /\ raised = "None"
    /\ last = "load_edges"
    /\ returned = <<>>
    /\ ops = 0
    /\ NoEnhance /\ NoRun

SpecReplace == InitReplace /\ [][NextReplace]_vars

(* C34: the registered enhancer considers floor(PERCENTAGE * order / 100)  *)
(* distinct vertices, and when each has been made sure of a free port,     *)
(* before the completion, each has lost exactly one edge.                  *)
C34_OneEdgeRemovedPerSampledVertex ==
    Running =>
       \A c \in vertices_to_consider("RandomlyReplaceTenPercentEdges", graph, {}) :
          /\ Len(c.ret) = (PERCENTAGE * graph.order) \div 100
          /\ Cardinality(SeqToSet(c.ret)) = Len(c.ret)
          /\ \A e \in EnsureAll(c.g, c.ret, 1) :
                /\ e.raised = "None"
                /\ Cardinality(edges(e.g)) = Cardinality(edges(graph)) - Len(c.ret)
                /\ \A k \in 1 .. Len(c.ret) :
                      Len(e.g.edges_to[c.ret[k]]) = Len(graph.edges_to[c.ret[k]]) - 1

(* ============================ ideal(): SpecIdeal ======================= *)
MaxIdealOps == 2

(* ideal(), lines 617-628, on a graph that has its diameter and aspl. The  *)
(* aspl is the sum over the pairs divided by their number, the bound the   *)
(* sum from one vertex divided by order - 1: they compare as twice the     *)
(* one and order times the other.                                          *)
IdealOfAnalyzed(g) ==
    IF g.diameter > calculate_lower_bounds(g.order, g.degree).diameter
    THEN Outcome(g, "None", FALSE)
    ELSE IF g.diameter # calculate_lower_bounds(g.order, g.degree).diameter
    THEN Outcome(g, "AssertionError", FALSE)
    ELSE IF 2 * g.aspl > g.order * calculate_lower_bounds(g.order, g.degree).aspl
    THEN Outcome(g, "None", FALSE)
    ELSE IF 2 * g.aspl # g.order * calculate_lower_bounds(g.order, g.degree).aspl
    THEN Outcome(g, "AssertionError", FALSE)
    ELSE Outcome(g, "None", TRUE)

(* ideal(): the graph is analyzed first if it has no diameter or no aspl   *)
(* (lines 617-618).                                                        *)
ideal(g, dirtyRefs) ==
    IF g.diameter = None \/ g.aspl = None
    THEN IF analyze(g, dirtyRefs).raised # "None"
         THEN Outcome(analyze(g, dirtyRefs).g, analyze(g, dirtyRefs).raised, FALSE)
         ELSE IdealOfAnalyzed(analyze(g, dirtyRefs).g)
    ELSE IdealOfAnalyzed(g)

Ideal ==
    /\ Running
    /\ Apply("ideal", ideal(graph, Dirty))
    /\ UNCHANGED ops

NextIdeal ==
    \/ (ops < MaxIdealOps /\ AddEdge)
    \/ (ops < MaxIdealOps /\ RemoveEdge)
    \/ Analyze
    \/ Ideal

InitIdeal == InitLoaded(MaxOrder, MaxOrder * MaxDegree)

SpecIdeal == InitIdeal /\ [][NextIdeal]_vars

(* C35: when ideal() returns on a connected graph, it returns True exactly *)
(* when the diameter and the sum of distances of the edges the graph has   *)
(* now equal the lower bounds, whether or not the graph was analyzed since *)
(* its last modification.                                                  *)
C35_IdealAnswersForCurrentEdges ==
    (last = "ideal" /\ raised = "None" /\ Connected(graph)) =>
       returned =
          (/\ TrueDiameter(graph)
                 = calculate_lower_bounds(graph.order, graph.degree).diameter
           /\ 2 * TrueLengthsSum(graph)
                 = graph.order * calculate_lower_bounds(graph.order, graph.degree).aspl)

(* ================= the processes of a round: SpecRun =================== *)
(* C36: a round begins with an empty process list, and while the           *)
(* controller waits the list holds one process of this round for each      *)
(* enhancer that applies to best_graph, and no other.                      *)
C36_OneProcessPerApplicableEnhancer ==
    /\ pc = "create" => processes = <<>>
    /\ pc = "get" =>
          /\ \A k \in 1 .. Len(processes) :
                /\ processes[k][1] = round
                /\ processes[k][2] \in 1 .. Len(enhancers)
                /\ applicable_to(enhancers[processes[k][2]], best_graph)
                /\ \A j \in 1 .. Len(processes) :
                      j # k => processes[j] # processes[k]
          /\ \A i \in 1 .. Len(enhancers) :
                applicable_to(enhancers[i], best_graph) =>
                   \E k \in 1 .. Len(processes) : processes[k] = <<round, i>>

(* The second round has started a process for each of two enhancers. *)
C36_Witness ==
    /\ pc = "get"
    /\ round = 2
    /\ Len(processes) = MaxEnhancers

C38_BlocksOnlyWithPublishingWorker ==
    (pc = "get" /\ report_queue = <<>>)
       => \/ in_flight # {}
          \/ \E w \in workers :
                /\ w.pid[1] = round
                /\ ~w.signalled
                /\ Enhanced(w.best) # {}

(* ============= the two levels of dirty flags: SpecDuplicate ============ *)
(* C39: in every state the _dirty of a graph is true exactly when the      *)
(* dirty of one of its vertices is: of the graph worked on and of the      *)
(* graph it was duplicated or unpickled from.                              *)
C39_GraphDirtyIffSomeVertexDirty ==
    \A g \in {graph, best_graph} :
       g.dirty = (\E v \in Vertices(g) : g.vdirty[v])

(* A dirty graph with clean vertices too has been duplicated, or a dirty  *)
(* graph has been pickled and unpickled.                                  *)
C39_Witness ==
    \/ /\ last = "duplicate"
       /\ graph.dirty
       /\ \E v \in Vertices(graph) : graph.vdirty[v]
       /\ \E v \in Vertices(graph) : ~graph.vdirty[v]
       /\ ops >= 2
    \/ /\ last = "loads_dumps"
       /\ raised = "None"
       /\ best_graph.dirty
       /\ ~graph.dirty
       /\ edges(graph) # {}
       /\ ops >= 2

(* ============== a rejected add_edge_unsafe: SpecRandom ================= *)
(* C40: a call of add_edge_unsafe that ends with an AssertionError leaves  *)
(* the graph as it was: the adjacency lists, the graph's dirty flag and    *)
(* the vertices' dirty flags.                                              *)
C40_RejectedAddLeavesGraphUnchanged ==
    [][(last' = "add_edge_unsafe" /\ raised' = "AssertionError")
          => /\ graph'.edges_to = graph.edges_to
             /\ graph'.dirty = graph.dirty
             /\ graph'.vdirty = graph.vdirty]_vars

====
